---- MODULE Spec2Model ----
(***************************************************************************)
(* Auctuonus backend: bid placement, staged round finalization, scheduler  *)
(* sweep and the cache-backed distributed lock.                            *)
(*                                                                         *)
(* Eleven specifications share this module.                                *)
(*   Spec      the ledger: every action is one committed MongoDB           *)
(*             transaction (or one message-bus step) of bid placement,     *)
(*             the trigger handler, the stage handler and the scheduler.   *)
(*   LockSpec  the lock protocol: every action is one cache operation      *)
(*             (get / set / get / del) of acquireLock and releaseLock.     *)
(*   TxSpec    one placeBid call at a time, followed through the steps of  *)
(*             its transaction up to the commit or the abort.              *)
(*   LiveSpec, TriggerSpec, ModeSpec, CrashSpec and ExpirySpec restrict    *)
(*             or extend these with fairness, stray triggers, one sweep,   *)
(*             a failing publish and a dying lock holder.                  *)
(*   WaitSpec, AbortSpec and MixedSpec add the waiting acquire of the      *)
(*             lock, a stage handler whose transaction aborts or whose     *)
(*             process dies, and an auction with a cancelled round.        *)
(*                                                                         *)
(* Round indices are 1-based here (TLA+ sequences); the code's roundIndex  *)
(* is this index minus one.                                                *)
(***************************************************************************)
EXTENDS Integers, Sequences, FiniteSets, Bags, TLC

(***************************************************************************)
(* Bounds of the model                                                     *)
(***************************************************************************)
MaxTime == 3
MaxAmount == 2
MaxBidOps == 3
MaxCopies == 1
MaxTriggers == 2
InitBalance == 3

(***************************************************************************)
(* Fixed population: two bidders and one seller; auction a1, whose rounds  *)
(* end within the explored time, and auction a2, whose single round stays  *)
(* open (it takes bids and is never finalized within the explored time).   *)
(***************************************************************************)
Bidders == {"u1", "u2"}
Seller == "s"
Users == Bidders \cup {Seller}
Auctions == {"a1", "a2"}
Items == 1 .. 3
None == "none"

\* Wallet._id of the wallet of user u (wallets are looked up by userId)
WalletId(u) == <<"wallet", u>>

VARIABLES
  now,           \* wall clock read by `new Date()`
  wallets,       \* Wallet collection, keyed by userId
  bids,          \* Bid collection, in insertion (createdAt) order
  auctions,      \* Auction collection with embedded rounds
  items,         \* Item collection: ownerId by item num
  transactions,  \* Transaction collection (append-only), a bag
  jobsQ,         \* jobs.q: pending trigger messages, a bag of auction ids
  processingQ,   \* auction.processing.q: pending stage messages, a bag
  locked,        \* history: amount locked by bids of user u on auction a
                 \*   and not yet released by a payment or a refund
  credited,      \* history: total credited to the seller by PROCESS_PAYMENTS
                 \*   of round <<a, r>>
  committed,     \* history: stage messages whose transaction has committed
  triggers,      \* history: number of trigger messages published so far
  cache,         \* lock cache: token stored under each lock key
  lpc,           \* lock protocol: position of each caller
  seen,          \* lock protocol: value each caller last read from the cache
  session        \* the open transaction of a placeBid call followed step by
                 \*   step (TxSpec); "none" where calls are atomic

ledgerVars == <<now, wallets, bids, auctions, items, transactions, jobsQ,
                processingQ, locked, credited, committed,
                triggers>>
lockVars == <<cache, lpc, seen>>
auxVars == <<cache, lpc, seen, session>>
vars == <<now, wallets, bids, auctions, items, transactions, jobsQ,
          processingQ, locked, credited, committed, triggers,
          cache, lpc, seen, session>>

(***************************************************************************)
(* Enumerations of the schemas                                             *)
(***************************************************************************)
AuctionStatus == {"active", "ended", "cancelled"}
BidStatus == {"active", "won", "lost"}
RoundProcessingStatus ==
  {"pending", "active", "processing_winners", "processing_transfers",
   "processing_losers", "completed", "failed"}
STAGE_ORDER ==
  <<"determine_winners", "transfer_items", "process_payments",
    "refund_losers", "finalize">>

\* rounds[] of a fixture auction, from the item sets and end times of the
\* rounds; processingStatus is absent until the finalizer sets it
FixtureRounds(itemIds, endTime) ==
  [r \in 1 .. Len(itemIds) |->
     [endTime |-> endTime[r], status |-> "active", processingStatus |-> None,
      itemIds |-> itemIds[r]]]

\* auction a1 at creation: two rounds of one item each without anti-sniping
\* (the first round is at its end time), or one round of two items with an
\* anti-sniping window of two time units
Fixtures ==
  {[status |-> "active",
    settings |-> [antisniping |-> 0, minBid |-> 1, minBidDifference |-> 1],
    rounds |-> FixtureRounds(<<{1}, {2}>>, <<0, 2>>)],
   [status |-> "active",
    settings |-> [antisniping |-> 2, minBid |-> 1, minBidDifference |-> 1],
    rounds |-> FixtureRounds(<<{1, 2}>>, <<1>>)]}

\* auction a1 after both rounds expired without a bid and were finalized
EndedAuction ==
  [status |-> "ended",
   settings |-> [antisniping |-> 0, minBid |-> 1, minBidDifference |-> 1],
   rounds |-> [r \in 1 .. 2 |->
                 [endTime |-> <<0, 2>>[r], status |-> "ended",
                  processingStatus |-> "completed", itemIds |-> {r}]]]

\* auction a1 cancelled after its first round expired
CancelledAuction ==
  [status |-> "cancelled",
   settings |-> [antisniping |-> 0, minBid |-> 1, minBidDifference |-> 1],
   rounds |-> FixtureRounds(<<{1}, {2}>>, <<0, 2>>)]

\* auction a1 at creation with two rounds and an anti-sniping window of two
\* time units, the rounds ending one time unit apart
SnipingAuction ==
  [status |-> "active",
   settings |-> [antisniping |-> 2, minBid |-> 1, minBidDifference |-> 1],
   rounds |-> FixtureRounds(<<{1}, {2}>>, <<2, 3>>)]

\* auction a1 with a first round that has expired and is still ACTIVE and a
\* second round that was cancelled before its end time
MixedAuction ==
  [status |-> "active",
   settings |-> [antisniping |-> 0, minBid |-> 1, minBidDifference |-> 1],
   rounds |-> [FixtureRounds(<<{1}, {2}>>, <<0, 2>>) EXCEPT
                 ![2].status = "cancelled"]]

\* auction a2 at creation: one round of one item that ends beyond the
\* explored time; its minimum bid is 2 and its minimum raise is 2
OpenAuction ==
  [status |-> "active",
   settings |-> [antisniping |-> 2, minBid |-> 2, minBidDifference |-> 2],
   rounds |-> FixtureRounds(<<{3}>>, <<MaxTime + 3>>)]

(***************************************************************************)
(* Helpers                                                                 *)
(***************************************************************************)
Min(x, y) == IF x < y THEN x ELSE y

RECURSIVE SumOver(_, _)
\* sum of f[x] over the finite set S
SumOver(S, f) ==
  IF S = {} THEN 0
  ELSE LET x == CHOOSE y \in S : TRUE IN f[x] + SumOver(S \ {x}, f)

Take(s, n) == SubSeq(s, 1, Min(n, Len(s)))

BidIds == 1 .. Len(bids)

\* find({auctionId, status}) on the Bid collection
BidsOf(a, st) == {b \in BidIds : bids[b].auctionId = a /\ bids[b].status = st}

\* find({auctionId, userId, status: ACTIVE}) on the Bid collection
ActiveBidsOf(u, a) == {b \in BidsOf(a, "active") : bids[b].userId = u}

RECURSIVE SortByAmountDesc(_)
\* .sort({amount: -1}): every order of the set that is descending by amount;
\* the order of equal amounts is not determined by the query
SortByAmountDesc(S) ==
  IF S = {} THEN {<<>>}
  ELSE UNION { { <<b>> \o t : t \in SortByAmountDesc(S \ {b}) } :
               b \in {x \in S : \A y \in S : bids[x].amount >= bids[y].amount} }

RECURSIVE SortByNum(_)
\* .sort({num: 1}) on the items of a round
SortByNum(S) ==
  IF S = {} THEN <<>>
  ELSE LET m == CHOOSE x \in S : \A y \in S : x <= y
       IN <<m>> \o SortByNum(S \ {m})

(***************************************************************************)
(* Bid placement (BidPlacementService)                                     *)
(***************************************************************************)

\* _getAuction: the checks that reject the request
\* an ended-auction test that looks at the end times only
AuctionEndedByTimeOnly(a) ==
  \A r \in 1 .. Len(auctions[a].rounds) : auctions[a].rounds[r].endTime < now

AuctionEnded(a) ==
  \/ auctions[a].status # "active"
  \/ \A r \in 1 .. Len(auctions[a].rounds) : auctions[a].rounds[r].endTime < now
  \/ \A r \in 1 .. Len(auctions[a].rounds) : auctions[a].rounds[r].status # "active"

\* a bid lookup that never finds the caller's ACTIVE bid
MyBitNeverFound(u, a) == 0

\* a bid lookup that ignores the status filter: the caller's highest bid on
\* the auction, whatever its status
MyBitAnyStatus(u, a) ==
  LET mine == {b \in BidIds : bids[b].auctionId = a /\ bids[b].userId = u}
  IN  IF mine = {} THEN 0
      ELSE CHOOSE b \in mine : \A c \in mine : bids[b].amount >= bids[c].amount

\* _getMyBit: findOne({auctionId, userId, status: ACTIVE}).sort({amount: -1});
\* 0 stands for null
MyBit(u, a) ==
  IF ActiveBidsOf(u, a) = {} THEN 0
  ELSE CHOOSE b \in ActiveBidsOf(u, a) :
         \A c \in ActiveBidsOf(u, a) : bids[b].amount >= bids[c].amount

RECURSIVE AntisnipingAlwaysSets(_, _, _, _)
\* an anti-sniping pass that moves every unexpired round to the threshold,
\* later end times included
AntisnipingAlwaysSets(rounds, i, nowWithDelay, antisniping) ==
  IF i > Len(rounds) THEN rounds
  ELSE IF now < rounds[i].endTime
       THEN AntisnipingAlwaysSets([rounds EXCEPT ![i].endTime = nowWithDelay],
                                  i + 1, nowWithDelay + antisniping, antisniping)
       ELSE AntisnipingAlwaysSets(rounds, i + 1, nowWithDelay, antisniping)

RECURSIVE AntisnipingAlwaysAdvances(_, _, _, _)
\* an anti-sniping pass whose threshold advances after every unexpired round,
\* moved or not
AntisnipingAlwaysAdvances(rounds, i, nowWithDelay, antisniping) ==
  IF i > Len(rounds) THEN rounds
  ELSE IF now < rounds[i].endTime
       THEN AntisnipingAlwaysAdvances(
              IF nowWithDelay > rounds[i].endTime
              THEN [rounds EXCEPT ![i].endTime = nowWithDelay] ELSE rounds,
              i + 1, nowWithDelay + antisniping, antisniping)
       ELSE AntisnipingAlwaysAdvances(rounds, i + 1, nowWithDelay, antisniping)

RECURSIVE Antisniping(_, _, _, _)
\* _checkAntisniping: the forEach over the rounds, from index i on, with the
\* running threshold nowWithDelay
Antisniping(rounds, i, nowWithDelay, antisniping) ==
  IF i > Len(rounds) THEN rounds
  ELSE IF now < rounds[i].endTime /\ nowWithDelay > rounds[i].endTime
       THEN Antisniping([rounds EXCEPT ![i].endTime = nowWithDelay], i + 1,
                        nowWithDelay + antisniping, antisniping)
       ELSE Antisniping(rounds, i + 1, nowWithDelay, antisniping)

\* _checkAntisniping: the rounds written back by $set
CheckAntisniping(a) ==
  IF auctions[a].settings.antisniping # 0
  THEN Antisniping(auctions[a].rounds, 1, now + auctions[a].settings.antisniping,
                   auctions[a].settings.antisniping)
  ELSE auctions[a].rounds

\* a user without a wallet
Stranger == "x"

\* _getAuction: the error it throws, "none" when it returns the auction
GetAuctionError(a, amount) ==
  IF AuctionEnded(a) THEN "Auction is ended"
  ELSE IF amount < auctions[a].settings.minBid THEN "less than the minimum bid"
  ELSE None

\* a _getMyBit without the minimum-difference check
GetMyBitErrorNoDifference(u, a, amount) ==
  LET myBid == MyBit(u, a)
  IN  IF myBid = 0 THEN None
      ELSE IF bids[myBid].amount >= amount THEN "less than the current bid"
      ELSE None

\* _getMyBit: the error it throws, "none" when it returns myBid or null
GetMyBitError(u, a, amount) ==
  LET myBid == MyBit(u, a)
  IN  IF myBid = 0 THEN None
      ELSE IF bids[myBid].amount >= amount THEN "less than the current bid"
      ELSE IF amount < auctions[a].settings.minBid
           THEN "less than the minimum bid"
      ELSE IF amount < bids[myBid].amount + auctions[a].settings.minBidDifference
           THEN "less than the minimum bid difference"
      ELSE None

\* _getMyWallet: the error it throws, "none" when it returns the wallet
GetMyWalletError(u) ==
  IF u \notin DOMAIN wallets THEN "Wallet not found" ELSE None

\* a free-balance check that asks for the whole amount on a raise as well
NotEnoughErrorFullAmount(u, a, amount) ==
  IF wallets[u].balance - wallets[u].lockedBalance < amount
  THEN "Not enough balance" ELSE None

\* _updateBid / _createBid: the free-balance check made before their writes
NotEnoughError(u, a, amount) ==
  LET myBid == MyBit(u, a)
      need == IF myBid = 0 THEN amount ELSE amount - bids[myBid].amount
  IN  IF wallets[u].balance - wallets[u].lockedBalance < need
      THEN "Not enough balance" ELSE None

\* _checkAntisniping: the error it throws after the wallet and bid writes
AntisnipingError(a) ==
  LET newRounds == CheckAntisniping(a)
  IN  IF \A r \in 1 .. Len(newRounds) : ~(newRounds[r].endTime > now)
      THEN "Auction is ended" ELSE None

\* the error that makes placeBid fail, "none" when it succeeds: the first
\* error in the order of the calls of _placeBid
PlaceBidError(u, a, amount) ==
  IF GetAuctionError(a, amount) # None THEN GetAuctionError(a, amount)
  ELSE IF GetMyBitError(u, a, amount) # None THEN GetMyBitError(u, a, amount)
  ELSE IF GetMyWalletError(u) # None THEN GetMyWalletError(u)
  ELSE IF NotEnoughError(u, a, amount) # None THEN NotEnoughError(u, a, amount)
  ELSE AntisnipingError(a)

NumBidOps == BagCardinality(transactions) -
             SumOver({t \in BagToSet(transactions) : t.type = "TRANSFER"},
                     transactions)

\* a raise that locks the whole new amount instead of the difference
UpdateBidLocksFullAmount(u, a, amount, myBid) ==
  /\ wallets' = [wallets EXCEPT ![u].lockedBalance = @ + amount]
  /\ bids' = [bids EXCEPT ![myBid].amount = amount]
  /\ transactions' = transactions (+)
        SetToBag({[fromWalletId |-> WalletId(u), toWalletId |-> None,
                   amount |-> amount - bids[myBid].amount,
                   type |-> "INCREASE_BID", relatedEntityId |-> a]})
  /\ locked' = [locked EXCEPT ![u][a] = @ + amount]

\* a raise that inserts a second bid instead of updating the existing one
UpdateBidAsNewBid(u, a, amount, myBid) ==
  LET amountDifference == amount - bids[myBid].amount
  IN  /\ wallets' = [wallets EXCEPT ![u].lockedBalance = @ + amountDifference]
      /\ bids' = Append(bids, [bids[myBid] EXCEPT !.amount = amount])
      /\ transactions' = transactions (+)
            SetToBag({[fromWalletId |-> WalletId(u), toWalletId |-> None,
                       amount |-> amountDifference, type |-> "INCREASE_BID",
                       relatedEntityId |-> a]})
      /\ locked' = [locked EXCEPT ![u][a] = @ + amountDifference]

\* _updateBid: raise of the caller's ACTIVE bid
UpdateBid(u, a, amount, myBid) ==
  LET amountDifference == amount - bids[myBid].amount
  IN  /\ wallets' = [wallets EXCEPT ![u].lockedBalance = @ + amountDifference]
      /\ bids' = [bids EXCEPT ![myBid].amount = amount]
      /\ transactions' = transactions (+)
            SetToBag({[fromWalletId |-> WalletId(u), toWalletId |-> None,
                       amount |-> amountDifference, type |-> "INCREASE_BID",
                       relatedEntityId |-> a]})
      /\ locked' = [locked EXCEPT ![u][a] = @ + amountDifference]

\* _createBid: first bid of the caller on the auction
CreateBid(u, a, amount) ==
  /\ wallets' = [wallets EXCEPT ![u].lockedBalance = @ + amount]
  /\ bids' = Append(bids, [userId |-> u, auctionId |-> a, amount |-> amount,
                           status |-> "active", wonRound |-> 0, charged |-> 0])
  /\ transactions' = transactions (+)
        SetToBag({[fromWalletId |-> WalletId(u), toWalletId |-> None,
                   amount |-> amount, type |-> "BID", relatedEntityId |-> a]})
  /\ locked' = [locked EXCEPT ![u][a] = @ + amount]

\* placeBid -> _placeBidWithTransaction -> _placeBid: one transaction; an error
\* aborts it and nothing is written
PlaceBid(u, a, amount) ==
  /\ NumBidOps < MaxBidOps
  /\ IF PlaceBidError(u, a, amount) = None
     THEN /\ IF MyBit(u, a) # 0
             THEN UpdateBid(u, a, amount, MyBit(u, a))
             ELSE CreateBid(u, a, amount)
          /\ auctions' = [auctions EXCEPT ![a].rounds = CheckAntisniping(a)]
          /\ UNCHANGED <<now, items, jobsQ, processingQ, credited, committed, triggers>>
     ELSE UNCHANGED ledgerVars
  /\ UNCHANGED auxVars

(***************************************************************************)
(* Scheduler (AuctionSchedulerService)                                     *)
(***************************************************************************)

\* the find() filter of checkEndedAuctions: the two conditions on `rounds`
\* may be met by different rounds
SweepMatchesNever(a) == FALSE

SweepMatches(a) ==
  /\ auctions[a].status = "active"
  /\ \E r \in 1 .. Len(auctions[a].rounds) : auctions[a].rounds[r].endTime < now
  /\ \E r \in 1 .. Len(auctions[a].rounds) : auctions[a].rounds[r].status = "active"

\* checkEndedAuctions: one sweep publishes a trigger for every matching
\* auction (a queue that already holds MaxCopies of it takes no more)
CheckEndedAuctions ==
  LET endedAuctions == {a \in Auctions : SweepMatches(a)}
  IN  /\ endedAuctions # {}
      /\ \A a \in endedAuctions : CopiesIn(a, jobsQ) < MaxCopies
      /\ triggers + Cardinality(endedAuctions) <= MaxTriggers
      /\ jobsQ' = jobsQ (+) SetToBag(endedAuctions)
      /\ triggers' = triggers + Cardinality(endedAuctions)
      /\ UNCHANGED <<now, wallets, bids, auctions, items, transactions,
                     processingQ, locked, credited, committed>>
  /\ UNCHANGED auxVars

(***************************************************************************)
(* Finalizer (AuctionProcessingService)                                    *)
(***************************************************************************)
StageMsg(a, r, stage) == [auctionId |-> a, roundIndex |-> r, stage |-> stage]

\* a round selection that ignores the end times
RoundsToProcessAnyTime(a) ==
  {r \in 1 .. Len(auctions[a].rounds) : auctions[a].rounds[r].status = "active"}

\* the rounds for which _initializeProcessing publishes DETERMINE_WINNERS
RoundsToProcess(a) ==
  {r \in 1 .. Len(auctions[a].rounds) :
     /\ auctions[a].rounds[r].status = "active"
     /\ ~(auctions[a].rounds[r].endTime >= now)}

\* a trigger handler without the `!auction` and `status !== ACTIVE` returns
ProcessAuctionTriggerAnyStatus(a) ==
  /\ CopiesIn(a, jobsQ) > 0
  /\ jobsQ' = jobsQ (-) SetToBag({a})
  /\ IF a \notin DOMAIN auctions
     THEN UNCHANGED processingQ
     ELSE /\ \A r \in RoundsToProcess(a) :
               CopiesIn(StageMsg(a, r, "determine_winners"), processingQ)
                 < MaxCopies
          /\ processingQ' = processingQ (+)
               SetToBag({StageMsg(a, r, "determine_winners") :
                           r \in RoundsToProcess(a)})
  /\ UNCHANGED <<now, wallets, bids, auctions, items, transactions,
                 locked, credited, committed, triggers>>
  /\ UNCHANGED auxVars

\* processAuctionTrigger -> _initializeProcessing: consume one trigger; a
\* trigger for a missing or non-ACTIVE auction is dropped with Nack(false)
ProcessAuctionTrigger(a) ==
  /\ CopiesIn(a, jobsQ) > 0
  /\ jobsQ' = jobsQ (-) SetToBag({a})
  /\ IF a \notin DOMAIN auctions \/ auctions[a].status # "active"
     THEN UNCHANGED processingQ
     ELSE /\ \A r \in RoundsToProcess(a) :
               CopiesIn(StageMsg(a, r, "determine_winners"), processingQ)
                 < MaxCopies
          /\ processingQ' = processingQ (+)
               SetToBag({StageMsg(a, r, "determine_winners") :
                           r \in RoundsToProcess(a)})
  /\ UNCHANGED <<now, wallets, bids, auctions, items, transactions,
                 locked, credited, committed, triggers>>
  /\ UNCHANGED auxVars

IsLastRound(a, r) == r = Len(auctions[a].rounds)

\* position of a stage in STAGE_ORDER (indexOf, 1-based)
StageIndex(stage) == CHOOSE i \in 1 .. Len(STAGE_ORDER) : STAGE_ORDER[i] = stage

\* a next-stage lookup that never skips REFUND_LOSERS
GetNextStageNoSkip(currentStage, isLastRound) ==
  LET nextIndex == StageIndex(currentStage) + 1
  IN  IF nextIndex > Len(STAGE_ORDER) THEN None ELSE STAGE_ORDER[nextIndex]

\* _getNextStage; None stands for null
GetNextStage(currentStage, isLastRound) ==
  LET currentIndex == StageIndex(currentStage)
      nextIndex ==
        IF currentIndex + 1 <= Len(STAGE_ORDER)
           /\ STAGE_ORDER[currentIndex + 1] = "refund_losers"
           /\ ~isLastRound
        THEN currentIndex + 2 ELSE currentIndex + 1
  IN  IF nextIndex > Len(STAGE_ORDER) THEN None ELSE STAGE_ORDER[nextIndex]

\* _updateRoundProcessingStatus
UpdateRoundProcessingStatus(a, r, status) ==
  [auctions EXCEPT ![a].rounds[r].processingStatus = status]

\* _getEntities: the possible results topBids of the ACTIVE query
\* a bid query without .limit(items.length)
GetEntitiesNoLimit(a, r) == SortByAmountDesc(BidsOf(a, "active"))

GetEntities(a, r) ==
  {Take(o, Cardinality(auctions[a].rounds[r].itemIds)) :
     o \in SortByAmountDesc(BidsOf(a, "active"))}

\* _getWinningEntities: the possible results topBids of the WON query
GetWinningEntities(a, r) ==
  {Take(o, Cardinality(auctions[a].rounds[r].itemIds)) :
     o \in SortByAmountDesc(BidsOf(a, "won"))}

SeqRange(s) == {s[i] : i \in 1 .. Len(s)}

\* _stageDetermineWinners
StageDetermineWinners(a, r) ==
  /\ auctions' = UpdateRoundProcessingStatus(a, r, "processing_winners")
  /\ \E topBids \in GetEntities(a, r) :
       bids' = [b \in BidIds |->
                  IF b \in SeqRange(topBids)
                  THEN [bids[b] EXCEPT !.status = "won", !.wonRound = r]
                  ELSE bids[b]]
  /\ UNCHANGED <<wallets, items, transactions, locked, credited>>

\* _stageTransferItems
StageTransferItems(a, r) ==
  /\ auctions' = UpdateRoundProcessingStatus(a, r, "processing_transfers")
  /\ \E topBids \in GetWinningEntities(a, r) :
       LET its == SortByNum(auctions[a].rounds[r].itemIds)
           winningCount == Min(Len(its), Len(topBids))
       IN  items' = [i \in Items |->
                       IF \E k \in 1 .. winningCount : its[k] = i
                       THEN bids[topBids[CHOOSE k \in 1 .. winningCount :
                                           its[k] = i]].userId
                       ELSE items[i]]
  /\ UNCHANGED <<wallets, bids, transactions, locked, credited>>

RECURSIVE TransferDocs(_, _, _)
\* the transactionDocs of _stageProcessPayments for topBids[1 .. k]
TransferDocs(a, topBids, k) ==
  IF k = 0 THEN EmptyBag
  ELSE TransferDocs(a, topBids, k - 1) (+)
       SetToBag({[fromWalletId |-> bids[topBids[k]].userId,
                  toWalletId |-> WalletId(Seller),
                  amount |-> bids[topBids[k]].amount,
                  type |-> "TRANSFER", relatedEntityId |-> a]})

\* a payment stage that debits the winners and credits nobody
StageProcessPaymentsNoCredit(a, r) ==
  /\ \E topBids \in GetWinningEntities(a, r) :
       LET winningCount ==
             Min(Cardinality(auctions[a].rounds[r].itemIds), Len(topBids))
           amountOf == [k \in 1 .. winningCount |-> bids[topBids[k]].amount]
           debit(u) == SumOver({k \in 1 .. winningCount :
                                  bids[topBids[k]].userId = u}, amountOf)
       IN  /\ wallets' = [u \in Users |->
                [balance |-> wallets[u].balance - debit(u),
                 lockedBalance |-> wallets[u].lockedBalance - debit(u)]]
           /\ transactions' =
                transactions (+) TransferDocs(a, topBids, winningCount)
           /\ bids' = [b \in BidIds |->
                IF \E k \in 1 .. winningCount : topBids[k] = b
                THEN [bids[b] EXCEPT !.charged = @ + 1] ELSE bids[b]]
           /\ locked' = [u \in Users |->
                [locked[u] EXCEPT ![a] = @ - debit(u)]]
           /\ UNCHANGED credited
  /\ UNCHANGED <<auctions, items>>

\* _stageProcessPayments
StageProcessPayments(a, r) ==
  /\ \E topBids \in GetWinningEntities(a, r) :
       LET winningCount ==
             Min(Cardinality(auctions[a].rounds[r].itemIds), Len(topBids))
           amountOf == [k \in 1 .. winningCount |-> bids[topBids[k]].amount]
           debit(u) == SumOver({k \in 1 .. winningCount :
                                  bids[topBids[k]].userId = u}, amountOf)
           totalTransferAmount == SumOver(1 .. winningCount, amountOf)
       IN  /\ wallets' = [u \in Users |->
                [balance |-> wallets[u].balance - debit(u)
                             + (IF u = Seller THEN totalTransferAmount ELSE 0),
                 lockedBalance |-> wallets[u].lockedBalance - debit(u)]]
           /\ transactions' =
                transactions (+) TransferDocs(a, topBids, winningCount)
           /\ bids' = [b \in BidIds |->
                IF \E k \in 1 .. winningCount : topBids[k] = b
                THEN [bids[b] EXCEPT !.charged = @ + 1] ELSE bids[b]]
           /\ locked' = [u \in Users |->
                [locked[u] EXCEPT ![a] = @ - debit(u)]]
           /\ credited' = [credited EXCEPT ![a][r] = @ + totalTransferAmount]
  /\ UNCHANGED <<auctions, items>>

\* _stageRefundLosers
StageRefundLosers(a, r) ==
  IF ~IsLastRound(a, r)
  THEN UNCHANGED <<wallets, bids, auctions, items, transactions, locked,
                   credited>>
  ELSE LET losingBids == BidsOf(a, "active")
           amountOf == [b \in BidIds |-> bids[b].amount]
           refund(u) == SumOver({b \in losingBids : bids[b].userId = u},
                                amountOf)
       IN  /\ auctions' = UpdateRoundProcessingStatus(a, r, "processing_losers")
           /\ bids' = [b \in BidIds |->
                IF b \in losingBids THEN [bids[b] EXCEPT !.status = "lost"]
                ELSE bids[b]]
           /\ wallets' = [u \in Users |->
                [wallets[u] EXCEPT !.lockedBalance = @ - refund(u)]]
           /\ locked' = [u \in Users |->
                [locked[u] EXCEPT ![a] = @ - refund(u)]]
           /\ UNCHANGED <<items, transactions, credited>>

\* _stageFinalize
StageFinalize(a, r) ==
  /\ auctions' =
       [UpdateRoundProcessingStatus(a, r, "completed") EXCEPT
          ![a].rounds[r].status = "ended",
          ![a].status = IF IsLastRound(a, r) THEN "ended" ELSE @]
  /\ UNCHANGED <<wallets, bids, items, transactions, locked, credited>>

\* the switch of _executeStage
StageBody(m) ==
  CASE m.stage = "determine_winners" ->
         StageDetermineWinners(m.auctionId, m.roundIndex)
    [] m.stage = "transfer_items" ->
         StageTransferItems(m.auctionId, m.roundIndex)
    [] m.stage = "process_payments" ->
         StageProcessPayments(m.auctionId, m.roundIndex)
    [] m.stage = "refund_losers" ->
         StageRefundLosers(m.auctionId, m.roundIndex)
    [] m.stage = "finalize" ->
         StageFinalize(m.auctionId, m.roundIndex)

\* _executeStage: the stage commits, then the next stage is published and
\* the message is acknowledged
ExecuteStage(m) ==
  LET nextStage == GetNextStage(m.stage, IsLastRound(m.auctionId, m.roundIndex))
      published == IF nextStage = None THEN EmptyBag
                   ELSE SetToBag({StageMsg(m.auctionId, m.roundIndex,
                                           nextStage)})
  IN  /\ CopiesIn(m, processingQ) > 0
      /\ \A n \in BagToSet(published) :
           CopiesIn(n, processingQ (-) SetToBag({m})) < MaxCopies
      /\ StageBody(m)
      /\ committed' = committed \cup {m}
      /\ processingQ' = (processingQ (-) SetToBag({m})) (+) published
      /\ UNCHANGED <<now, jobsQ, triggers>>

\* processStage -> _executeStage, the handler as one step
ProcessStage(m) ==
  /\ ExecuteStage(m)
  /\ UNCHANGED auxVars

(***************************************************************************)
(* Distributed lock (DistributedLockService): every action is one cache    *)
(* operation of acquireLock / releaseLock, or one control step of          *)
(* acquireLockWithPubSub / withLock.                                       *)
(***************************************************************************)

\* concurrent callers: two bid placements of the same user on the same
\* auction, a bid placement of that user on another auction and one
\* finalizer handler of the first auction
Callers == {"bid1", "bid2", "bid3", "fin"}

\* a placeBid (bid2) that takes the user lock before the auction lock
LockKeysUserFirst(c) ==
  IF c = "fin" THEN <<"auction:a1">>
  ELSE IF c = "bid3" THEN <<"auction:a2", "user:u1:bid">>
  ELSE IF c = "bid2" THEN <<"user:u1:bid", "auction:a1">>
  ELSE <<"auction:a1", "user:u1:bid">>

\* the keys a caller locks, outermost first: placeBid nests the user lock in
\* the auction lock, processAuctionTrigger / processStage take the auction lock
LockKeys(c) ==
  IF c = "fin" THEN <<"auction:a1">>
  ELSE IF c = "bid3" THEN <<"auction:a2", "user:u1:bid">>
  ELSE <<"auction:a1", "user:u1:bid">>

Keys == {"auction:a1", "auction:a2", "user:u1:bid"}

\* the key caller c is acquiring or releasing
CurKey(c) == LockKeys(c)[lpc[c].depth]

\* acquireLock: `existingLock = get(lockKey)`; a present entry makes the
\* attempt return null
AcquireLockGet(c) ==
  /\ lpc[c].pos = "start"
  /\ seen' = [seen EXCEPT ![c] = cache[CurKey(c)]]
  /\ lpc' = [lpc EXCEPT ![c].pos = IF cache[CurKey(c)] = None
                                    THEN "set" ELSE "wait"]
  /\ UNCHANGED cache

\* acquireLock: `set(lockKey, lockToken)`; the token is unique to the call
\* and is modelled by the caller's name
AcquireLockSet(c) ==
  /\ lpc[c].pos = "set"
  /\ cache' = [cache EXCEPT ![CurKey(c)] = c]
  /\ lpc' = [lpc EXCEPT ![c].pos = "verify"]
  /\ UNCHANGED seen

\* acquireLock: `verifyLock = get(lockKey)`; the token is returned when the
\* stored value is the caller's own. withLock then runs fn, which for the
\* outer lock of placeBid is the inner withLock
AcquireLockVerify(c) ==
  /\ lpc[c].pos = "verify"
  /\ seen' = [seen EXCEPT ![c] = cache[CurKey(c)]]
  /\ lpc' = [lpc EXCEPT ![c] =
       IF cache[CurKey(c)] # c THEN [@ EXCEPT !.pos = "wait"]
       ELSE IF lpc[c].depth < Len(LockKeys(c))
            THEN [@ EXCEPT !.depth = @ + 1, !.pos = "start"]
            ELSE [@ EXCEPT !.pos = "fn"]]
  /\ UNCHANGED cache

\* acquireLockWithPubSub: after waitForLockRelease the loop tries again
Retry(c) ==
  /\ lpc[c].pos = "wait"
  /\ lpc' = [lpc EXCEPT ![c].pos = "start"]
  /\ UNCHANGED <<cache, seen>>

\* acquireLockWithPubSub throws (pub/sub unavailable, timeout or attempts
\* exhausted): withLock does not run fn; an enclosing withLock releases
GiveUp(c) ==
  /\ lpc[c].pos = "wait"
  /\ lpc' = [lpc EXCEPT ![c] =
       IF lpc[c].depth = 1 THEN [@ EXCEPT !.pos = "thrown"]
       ELSE [@ EXCEPT !.depth = @ - 1, !.pos = "relGet", !.failed = TRUE]]
  /\ UNCHANGED <<cache, seen>>

\* withLock: fn (the critical section) returns or throws
FnReturns(c) ==
  /\ lpc[c].pos = "fn"
  /\ lpc' = [lpc EXCEPT ![c].pos = "relGet"]
  /\ UNCHANGED <<cache, seen>>

\* where a caller continues after releaseLock returns
AfterRelease(c) ==
  IF lpc[c].depth > 1
  THEN [lpc[c] EXCEPT !.depth = @ - 1, !.pos = "relGet"]
  ELSE [lpc[c] EXCEPT !.pos = IF lpc[c].failed THEN "thrown" ELSE "done"]

\* a releaseLock that reads the token and returns without deleting it
ReleaseLockGetNoDel(c) ==
  /\ lpc[c].pos = "relGet"
  /\ seen' = [seen EXCEPT ![c] = cache[CurKey(c)]]
  /\ lpc' = [lpc EXCEPT ![c] = AfterRelease(c)]
  /\ UNCHANGED cache

\* releaseLock: `currentToken = get(lockKey)`; a different or missing token
\* makes it return false
ReleaseLockGet(c) ==
  /\ lpc[c].pos = "relGet"
  /\ seen' = [seen EXCEPT ![c] = cache[CurKey(c)]]
  /\ lpc' = [lpc EXCEPT ![c] = IF cache[CurKey(c)] = c
                               THEN [@ EXCEPT !.pos = "relDel"]
                               ELSE AfterRelease(c)]
  /\ UNCHANGED cache

\* releaseLock: `del(lockKey)`
ReleaseLockDel(c) ==
  /\ lpc[c].pos = "relDel"
  /\ cache' = [cache EXCEPT ![CurKey(c)] = None]
  /\ lpc' = [lpc EXCEPT ![c] = AfterRelease(c)]
  /\ UNCHANGED seen

\* caller c has obtained a token for key k and its release has not removed it
Holds(c, k) ==
  \E j \in 1 .. Len(LockKeys(c)) :
    /\ LockKeys(c)[j] = k
    /\ \/ lpc[c].depth > j
       \/ lpc[c].depth = j /\ lpc[c].pos \in {"fn", "relGet", "relDel"}

\* time passes
Tick ==
  /\ now < MaxTime
  /\ now' = now + 1
  /\ UNCHANGED <<wallets, bids, auctions, items, transactions, jobsQ,
                 processingQ, locked, credited, committed,
                 triggers>>
  /\ UNCHANGED auxVars

\* the collections after the fixtures are inserted, a1 being one of fixtures
LedgerInitWith(fixtures) ==
  /\ now = 0
  /\ wallets = [u \in Users |->
                  [balance |-> IF u = Seller THEN 0 ELSE InitBalance,
                   lockedBalance |-> 0]]
  /\ bids = <<>>
  /\ \E fixture \in fixtures :
       auctions = [a \in Auctions |->
                     IF a = "a1" THEN fixture ELSE OpenAuction]
  /\ items = [i \in Items |-> Seller]
  /\ transactions = EmptyBag
  /\ jobsQ = EmptyBag
  /\ processingQ = EmptyBag
  /\ locked = [u \in Users |-> [a \in Auctions |-> 0]]
  /\ credited = [a \in Auctions |-> [r \in 1 .. 2 |-> 0]]
  /\ committed = {}
  /\ triggers = 0

LedgerInit == LedgerInitWith(Fixtures)

LockIdle ==
  /\ cache = None
  /\ lpc = None
  /\ seen = None

NoSession == session = None

Init == LedgerInit /\ LockIdle /\ NoSession

Next ==
  \/ \E u \in Bidders, a \in Auctions, amount \in 1 .. MaxAmount :
       PlaceBid(u, a, amount)
  \/ Tick
  \/ CheckEndedAuctions
  \/ \E a \in Auctions : ProcessAuctionTrigger(a)
  \/ \E m \in BagToSet(processingQ) : ProcessStage(m)

Spec == Init /\ [][Next]_vars

LockInit ==
  /\ LedgerInit
  /\ auctions["a1"].settings.antisniping = 0
  /\ cache = [k \in Keys |-> None]
  /\ lpc = [c \in Callers |-> [depth |-> 1, pos |-> "start", failed |-> FALSE]]
  /\ seen = [c \in Callers |-> None]
  /\ NoSession

LockNext ==
  /\ \E c \in Callers :
       \/ AcquireLockGet(c)
       \/ AcquireLockSet(c)
       \/ AcquireLockVerify(c)
       \/ Retry(c)
       \/ GiveUp(c)
       \/ FnReturns(c)
       \/ ReleaseLockGet(c)
       \/ ReleaseLockDel(c)
  /\ UNCHANGED ledgerVars
  /\ UNCHANGED session

LockSpec == LockInit /\ [][LockNext]_vars

(***************************************************************************)
(* One placeBid call step by step (TxSpec). The session is the only open   *)
(* transaction, so what it reads is the committed state; its writes become *)
(* visible at the commit. The call reads the clock once, so time that      *)
(* passes during the call is not observable to it and Tick waits.          *)
(***************************************************************************)
TxUsers == Bidders \cup {Stranger}
TxAmounts == 1 .. InitBalance + 1

IdleSession ==
  [pos |-> "idle", userId |-> None, auctionId |-> None, amount |-> 0,
   error |-> None, written |-> FALSE, before |-> None]

\* the committed documents a placeBid call can write
Committed ==
  [wallets |-> wallets, bids |-> bids, transactions |-> transactions,
   rounds |-> [a \in Auctions |-> auctions[a].rounds]]

\* a step of the call that writes nothing to the committed state
TxStep(next) ==
  /\ session' = next
  /\ UNCHANGED ledgerVars
  /\ UNCHANGED lockVars

\* _placeBidWithTransaction: startSession, startTransaction
TxBegin(u, a, amount) ==
  /\ session.pos = "idle"
  /\ NumBidOps < MaxBidOps
  /\ TxStep([IdleSession EXCEPT !.pos = "getAuction", !.userId = u,
                               !.auctionId = a, !.amount = amount,
                               !.before = Committed])

\* a step of _placeBid that throws err or moves on to the position next
TxCheck(pos, err, next) ==
  /\ session.pos = pos
  /\ TxStep(IF err # None THEN [session EXCEPT !.pos = "abort", !.error = err]
                          ELSE [session EXCEPT !.pos = next])

\* _placeBid: _getAuction
TxGetAuction ==
  TxCheck("getAuction", GetAuctionError(session.auctionId, session.amount),
          "getMyBit")

\* _placeBid: _getMyBit
TxGetMyBit ==
  TxCheck("getMyBit",
          GetMyBitError(session.userId, session.auctionId, session.amount),
          "getMyWallet")

\* _placeBid: _getMyWallet
TxGetMyWallet ==
  TxCheck("getMyWallet", GetMyWalletError(session.userId), "write")

\* _placeBid: _updateBid / _createBid; the writes go to the session
TxWrite ==
  /\ session.pos = "write"
  /\ LET err == NotEnoughError(session.userId, session.auctionId,
                               session.amount)
     IN  TxStep(IF err # None
                THEN [session EXCEPT !.pos = "abort", !.error = err]
                ELSE [session EXCEPT !.pos = "antisniping", !.written = TRUE])

\* _placeBid: _checkAntisniping, after the wallet and bid writes
TxCheckAntisniping ==
  TxCheck("antisniping", AntisnipingError(session.auctionId), "commit")

\* the writes of the session, as the commit makes them visible
SessionWrites ==
  LET u == session.userId
      a == session.auctionId
  IN  IF MyBit(u, a) # 0 THEN UpdateBid(u, a, session.amount, MyBit(u, a))
                         ELSE CreateBid(u, a, session.amount)

\* session.commitTransaction()
TxCommit ==
  /\ session.pos = "commit"
  /\ SessionWrites
  /\ auctions' = [auctions EXCEPT ![session.auctionId].rounds =
                                   CheckAntisniping(session.auctionId)]
  /\ session' = [session EXCEPT !.pos = "ok"]
  /\ UNCHANGED <<now, items, jobsQ, processingQ, credited, committed, triggers>>
  /\ UNCHANGED lockVars

\* an abort that leaves the writes of the session in the collections
AbortKeepsWrites ==
  IF session.written THEN SessionWrites
  ELSE UNCHANGED <<wallets, bids, transactions, locked>>

\* session.abortTransaction(): the writes of the session are discarded
AbortTransaction == UNCHANGED <<wallets, bids, transactions, locked>>

\* _placeBidWithTransaction: the catch block
TxAbort ==
  /\ session.pos = "abort"
  /\ AbortTransaction
  /\ session' = [session EXCEPT !.pos = "failed"]
  /\ UNCHANGED <<now, auctions, items, jobsQ, processingQ, credited,
                 committed, triggers>>
  /\ UNCHANGED lockVars

\* the call has returned or thrown; the next call can start
TxEnd ==
  /\ session.pos \in {"ok", "failed"}
  /\ TxStep(IdleSession)

TxTick == session.pos = "idle" /\ Tick

\* a1 may also be an auction that has already been finalized, or one with
\* two rounds under anti-sniping
TxInit ==
  /\ LedgerInitWith(Fixtures \cup {EndedAuction, SnipingAuction})
  /\ LockIdle
  /\ session = IdleSession

TxNext ==
  \/ \E u \in TxUsers, a \in Auctions, amount \in TxAmounts :
       TxBegin(u, a, amount)
  \/ TxGetAuction
  \/ TxGetMyBit
  \/ TxGetMyWallet
  \/ TxWrite
  \/ TxCheckAntisniping
  \/ TxCommit
  \/ TxAbort
  \/ TxEnd
  \/ TxTick

TxSpec == TxInit /\ [][TxNext]_vars

(***************************************************************************)
(* Properties                                                              *)
(***************************************************************************)

\* C1: in every committed state every wallet has
\* 0 <= lockedBalance <= balance
C1_LockedWithinBalance ==
  \A u \in Users :
    /\ 0 <= wallets[u].lockedBalance
    /\ wallets[u].lockedBalance <= wallets[u].balance

\* C2: for every lock key, at most one caller at a time holds a token that
\* it has acquired and not yet released
C2_MutualExclusion ==
  \A k \in Keys : Cardinality({c \in Callers : Holds(c, k)}) <= 1

BidAmount == [b \in BidIds |-> bids[b].amount]
ActiveSum(u, a) == SumOver(ActiveBidsOf(u, a), BidAmount)
LockedTotal(u) == SumOver(Auctions, locked[u])

\* C4 as stated: for every user U and auction A the sum of U's ACTIVE bids on
\* A is 0 or equals the part of U's lockedBalance caused by A, and
\* lockedBalance is the sum of those parts over the auctions
C4_AsStated ==
  \A u \in Users :
    /\ wallets[u].lockedBalance = LockedTotal(u)
    /\ \A a \in Auctions :
         ActiveSum(u, a) = 0 \/ ActiveSum(u, a) = locked[u][a]

\* C4 amended: the equality holds for every user U and auction A on which
\* every bid of U is still ACTIVE; lockedBalance is the sum of the parts
\* caused by the auctions
C4_LockedContribution ==
  \A u \in Users :
    /\ wallets[u].lockedBalance = LockedTotal(u)
    /\ \A a \in Auctions :
         (\A b \in BidIds :
            bids[b].userId = u /\ bids[b].auctionId = a
              => bids[b].status = "active")
         => locked[u][a] = ActiveSum(u, a)

\* a user whose only bid on a1 is ACTIVE and was raised, while another
\* user's bid on a1 has WON and the finalization has not yet charged it
C4_Witness ==
  \E u \in Bidders :
    /\ Cardinality(ActiveBidsOf(u, "a1")) = 1
    /\ \A b \in BidIds : bids[b].userId = u => bids[b].status = "active"
    /\ \E t \in BagToSet(transactions) :
         /\ t.type = "INCREASE_BID"
         /\ t.fromWalletId = WalletId(u)
         /\ t.relatedEntityId = "a1"
    /\ \E b \in BidsOf("a1", "won") : bids[b].userId # u /\ bids[b].charged = 0

\* the rounds of auction a, and the bids DETERMINE_WINNERS of round <<a, r>>
\* marked WON
Rounds(a) == 1 .. Len(auctions[a].rounds)
WinnersOf(a, r) ==
  {b \in BidIds : bids[b].auctionId = a /\ bids[b].wonRound = r}

\* C5: when a round is COMPLETED every bid that won it has been charged
\* exactly once (balance and lockedBalance each decreased by its amount) and
\* the seller has been credited the sum of the winning amounts of the round
C5_WinnersChargedOnce ==
  \A a \in Auctions : \A r \in Rounds(a) :
    auctions[a].rounds[r].processingStatus = "completed"
    => /\ \A b \in WinnersOf(a, r) : bids[b].charged = 1
       /\ credited[a][r] = SumOver(WinnersOf(a, r), BidAmount)

\* C6: when a round is COMPLETED the i-th item of the round by ascending num
\* is owned by the user of the i-th winning bid of the round by descending
\* amount (for some order of equal amounts)
C6_ItemsFollowWinners ==
  \A a \in Auctions : \A r \in Rounds(a) :
    auctions[a].rounds[r].processingStatus = "completed"
    => \E order \in SortByAmountDesc(WinnersOf(a, r)) :
         LET its == SortByNum(auctions[a].rounds[r].itemIds)
         IN  \A i \in 1 .. Min(Len(its), Len(order)) :
               items[its[i]] = bids[order[i]].userId

\* C7: when an auction is ENDED none of its bids is ACTIVE and no amount of
\* any user is still locked by a bid on it
C7_EndedAuctionReleased ==
  \A a \in Auctions :
    auctions[a].status = "ended"
    => /\ BidsOf(a, "active") = {}
       /\ \A u \in Users : locked[u][a] = 0

\* the observable ledger: wallet values, bid statuses and item owners
Observable == <<wallets, [b \in BidIds |-> bids[b].status], items>>

\* C8: a delivery of a stage message whose content equals that of a stage
\* message already committed changes no wallet balance or lockedBalance, no
\* bid status and no item owner
C8_ReplayCommitsNothing ==
  [][\A m \in committed : ProcessStage(m) => Observable' = Observable]_vars

\* the state a single trigger leaves behind for a one-round auction a whose
\* round has ended: the highest bids (as many as the round has items) are WON
\* and charged once, the other bids are LOST and released, the items follow
\* the winners, the seller holds the winning amounts. Bids on other auctions
\* are still locked.
SingleTriggerOutcome(a) ==
  \E order \in SortByAmountDesc({b \in BidIds : bids[b].auctionId = a}) :
    LET its == SortByNum(auctions[a].rounds[1].itemIds)
        winners == SeqRange(Take(order, Len(its)))
        wonBy(u) == SumOver({b \in winners : bids[b].userId = u}, BidAmount)
        lockedElsewhere(u) ==
          SumOver({b \in BidIds : /\ bids[b].userId = u
                                   /\ bids[b].auctionId # a
                                   /\ bids[b].status = "active"}, BidAmount)
    IN  /\ \A b \in BidIds :
             bids[b].auctionId = a
             => bids[b].status = IF b \in winners THEN "won" ELSE "lost"
        /\ \A i \in 1 .. Len(its) :
             items[its[i]] = IF i <= Len(order) THEN bids[order[i]].userId
                                                ELSE Seller
        /\ \A u \in Bidders :
             wallets[u] = [balance |-> InitBalance - wonBy(u),
                           lockedBalance |-> lockedElsewhere(u)]
        /\ wallets[Seller] =
             [balance |-> SumOver(winners, BidAmount), lockedBalance |-> 0]

\* no trigger and no stage message of auction a is pending
Quiescent(a) ==
  /\ CopiesIn(a, jobsQ) = 0
  /\ \A m \in BagToSet(processingQ) : m.auctionId # a

\* C9: however many triggers were delivered for an auction, once it is ENDED
\* and none of its messages is pending, bid statuses, item owners and wallet
\* values are those a single trigger produces (stated for auctions of one
\* round, where that outcome is a closed form of the bids)
C9_DuplicateTriggersHarmless ==
  \A a \in Auctions :
    Len(auctions[a].rounds) = 1 /\ auctions[a].status = "ended" /\ Quiescent(a)
    => SingleTriggerOutcome(a)

\* position of a processingStatus in the order PENDING/ACTIVE (or absent),
\* PROCESSING_WINNERS, PROCESSING_TRANSFERS, PROCESSING_LOSERS, COMPLETED;
\* FAILED is never written by the finalizer
ProcessingRank(status) ==
  CASE status \in {None, "pending", "active"} -> 0
    [] status = "processing_winners" -> 1
    [] status = "processing_transfers" -> 2
    [] status = "processing_losers" -> 3
    [] status = "completed" -> 4

\* C10: no step moves the processingStatus of a round back to an earlier
\* value of the order
C10_ProcessingStatusMonotone ==
  [][\A a \in Auctions : \A r \in Rounds(a) :
       ProcessingRank(auctions'[a].rounds[r].processingStatus)
         >= ProcessingRank(auctions[a].rounds[r].processingStatus)]_vars

\* C11: no step removes a bid, changes the status or the amount of a bid that
\* is WON or LOST, or changes the status of an ACTIVE bid to anything but WON
\* or LOST
C11_BidStatusTerminal ==
  [][/\ Len(bids') >= Len(bids)
     /\ \A b \in BidIds :
          /\ bids[b].status # "active"
             => /\ bids'[b].status = bids[b].status
                /\ bids'[b].amount = bids[b].amount
          /\ bids'[b].status # bids[b].status
             => bids[b].status = "active" /\ bids'[b].status \in {"won", "lost"}
    ]_vars

\* a user has a WON bid that was charged and has bid again on the same
\* auction afterwards, and another bid on that auction is LOST
C11_Witness ==
  \E a \in Auctions : \E w \in BidsOf(a, "won") :
    /\ bids[w].charged >= 1
    /\ \E b \in BidIds : b > w /\ bids[b].auctionId = a
                         /\ bids[b].userId = bids[w].userId
    /\ BidsOf(a, "lost") # {}

\* C12: when a placeBid call has failed, the committed wallets, bids,
\* transactions and round end times are those from before the call
C12_FailedBidRollsBack ==
  session.pos = "failed" => Committed = session.before

\* a call has failed in the anti-sniping step, after its wallet and bid
\* writes
C12_Witness ==
  /\ session.pos = "failed"
  /\ session.written
  /\ session.error = "Auction is ended"

\* caller c is waiting for the release of a key whose token caller d holds
WaitsOn(c, d) ==
  c # d /\ lpc[c].pos = "wait" /\ Holds(d, CurKey(c))

\* C13: there is no set of callers each of which waits for a lock held by
\* another caller of the set
C13_NoCircularWait ==
  \A D \in SUBSET Callers :
    D # {} => \E c \in D : \A d \in D : ~WaitsOn(c, d)

\* the finalizer waits for the auction lock held by a placeBid that itself
\* waits for the user lock held by a placeBid on another auction
C13_Witness ==
  /\ WaitsOn("fin", "bid1")
  /\ WaitsOn("bid1", "bid3")

(***************************************************************************)
(* LiveSpec: the ledger under a scheduler that never stops.  The sweep of  *)
(* Spec stops after MaxTriggers triggers; here it goes on for ever, but    *)
(* once MaxTriggers triggers have been published a sweep publishes only    *)
(* when the previous work on the auction has drained (sweeps are ten       *)
(* seconds apart), which keeps the number of replayed payments finite.     *)
(* Weak fairness: the @Interval sweep keeps firing, RabbitMQ keeps         *)
(* delivering jobs.q and auction.processing.q, withLock keeps retrying.    *)
(***************************************************************************)
LiveBidOps == 2

LiveCheckEndedAuctions ==
  LET endedAuctions == {a \in Auctions : SweepMatches(a)}
      n == Cardinality(endedAuctions)
  IN  /\ endedAuctions # {}
      /\ \A a \in endedAuctions : CopiesIn(a, jobsQ) < MaxCopies
      /\ \/ triggers + n <= MaxTriggers
         \/ \A a \in endedAuctions : Quiescent(a)
      /\ jobsQ' = jobsQ (+) SetToBag(endedAuctions)
      /\ triggers' = Min(triggers + n, MaxTriggers)
      /\ UNCHANGED <<now, wallets, bids, auctions, items, transactions,
                     processingQ, locked, credited, committed>>
  /\ UNCHANGED auxVars

LivePlaceBid ==
  /\ NumBidOps < LiveBidOps
  /\ \E u \in Bidders, amount \in 1 .. MaxAmount : PlaceBid(u, "a1", amount)

LiveProcessAuctionTrigger == \E a \in Auctions : ProcessAuctionTrigger(a)

LiveProcessStage == \E m \in BagToSet(processingQ) : ProcessStage(m)

LiveNext ==
  \/ LivePlaceBid
  \/ Tick
  \/ LiveCheckEndedAuctions
  \/ LiveProcessAuctionTrigger
  \/ LiveProcessStage

LiveSpec ==
  /\ Init
  /\ [][LiveNext]_vars
  /\ WF_vars(LiveCheckEndedAuctions)
  /\ WF_vars(LiveProcessAuctionTrigger)
  /\ WF_vars(LiveProcessStage)

RoundExpired(a, r) ==
  /\ r \in Rounds(a)
  /\ auctions[a].status = "active"
  /\ auctions[a].rounds[r].status = "active"
  /\ auctions[a].rounds[r].endTime < now

RoundSettled(a, r) ==
  /\ r \in Rounds(a)
  /\ auctions[a].rounds[r].processingStatus = "completed"
  /\ auctions[a].rounds[r].status = "ended"

\* C14: in an ACTIVE auction every ACTIVE round whose endTime has passed
\* eventually has processingStatus COMPLETED and status ENDED, given that the
\* sweep keeps running and that triggers and stage messages keep being
\* delivered; every trigger comes from the sweep, none is scheduled up front.
C14_ExpiredRoundSettles ==
  \A a \in Auctions : \A r \in 1 .. 2 : RoundExpired(a, r) ~> RoundSettled(a, r)

\* both rounds of a two-round auction were picked up by sweeps and settled
C14_Witness ==
  /\ Len(auctions["a1"].rounds) = 2
  /\ RoundSettled("a1", 1)
  /\ RoundSettled("a1", 2)
  /\ auctions["a1"].status = "ended"
  /\ triggers >= 1

\* withLock of caller c on its j-th key has returned or thrown, or has not
\* been called yet
Outside(c, j) == j > lpc[c].depth \/ lpc[c].pos \in {"done", "thrown"}

\* C15: withLock runs fn only in the step in which acquireLock has read the
\* caller's own token back; once withLock has returned or thrown, the key does
\* not hold the call's token; and a call whose acquisition failed never runs fn.
C15_WithLockBrackets ==
  /\ [](\A c \in Callers : \A j \in 1 .. Len(LockKeys(c)) :
          Outside(c, j) => cache[LockKeys(c)[j]] # c)
  /\ [][\A c \in Callers :
          /\ (lpc'[c].pos = "fn" /\ lpc[c].pos # "fn") \/ lpc'[c].depth > lpc[c].depth
               => lpc[c].pos = "verify" /\ cache[CurKey(c)] = c
          /\ lpc[c].failed \/ lpc[c].pos = "thrown" => lpc'[c].pos # "fn"]_vars

\* one placeBid ran fn and returned, one failed on the inner lock and released
\* the outer one, and the finalizer failed to acquire at all
C15_Witness ==
  /\ lpc["bid1"].pos = "done"
  /\ lpc["bid2"].pos = "thrown" /\ lpc["bid2"].failed
  /\ lpc["fin"].pos = "thrown" /\ ~lpc["fin"].failed

(***************************************************************************)
(* Contract of placeBid, read off a finished call of TxSpec: session.before *)
(* is the committed state at the start of the call.                         *)
(***************************************************************************)
Returned == session.pos \in {"ok", "failed"}
Succeeded == session.pos = "ok"
Rejected == session.pos = "failed"

\* the caller's ACTIVE bid on the auction when the call started, 0 for none
PriorBid ==
  LET b == session.before.bids
      mine == {i \in 1 .. Len(b) : /\ b[i].userId = session.userId
                                    /\ b[i].auctionId = session.auctionId
                                    /\ b[i].status = "active"}
  IN  IF mine = {} THEN 0
      ELSE CHOOSE i \in mine : \A j \in mine : b[i].amount >= b[j].amount

PriorAmount == session.before.bids[PriorBid].amount

\* balance - lockedBalance of the caller's wallet when the call started
FreeBefore ==
  session.before.wallets[session.userId].balance
    - session.before.wallets[session.userId].lockedBalance

\* the errors _getAuction throws
GetAuctionErrors == {"Auction is ended", "less than the minimum bid"}

\* C16: a successful raise from p to a adds a - p to lockedBalance, leaves
\* balance alone, sets the amount of the existing bid and adds no bid, and
\* appends exactly one INCREASE_BID transaction of a - p.
C16_RaiseLocksDifference ==
  Succeeded /\ PriorBid # 0 =>
    LET u == session.userId
        b == session.before
        delta == session.amount - PriorAmount
    IN  /\ wallets[u].lockedBalance = b.wallets[u].lockedBalance + delta
        /\ wallets[u].balance = b.wallets[u].balance
        /\ bids = [b.bids EXCEPT ![PriorBid].amount = session.amount]
        /\ transactions = b.transactions (+)
             SetToBag({[fromWalletId |-> WalletId(u), toWalletId |-> None,
                        amount |-> delta, type |-> "INCREASE_BID",
                        relatedEntityId |-> session.auctionId]})

\* a raise has been committed
C16_Witness == Succeeded /\ PriorBid # 0 /\ session.amount - PriorAmount >= 1

\* C17: with an ACTIVE bid of p, a placeBid of amount <= p or of
\* amount < p + minBidDifference is rejected, with the not-higher or the
\* minimum-difference error unless _getAuction has already rejected the call;
\* an amount that passes both tests gets neither of these two errors.
C17_RaiseChecks ==
  Returned /\ PriorBid # 0 =>
    LET p == PriorAmount
        d == auctions[session.auctionId].settings.minBidDifference
        checked == session.error \notin GetAuctionErrors
    IN  /\ session.amount <= p \/ session.amount < p + d => Rejected
        /\ session.amount <= p /\ checked
             => session.error = "less than the current bid"
        /\ session.amount > p /\ session.amount < p + d /\ checked
             => session.error = "less than the minimum bid difference"
        /\ session.amount > p /\ session.amount >= p + d
             => session.error \notin {"less than the current bid",
                                      "less than the minimum bid difference"}

\* a raise above the current bid was rejected for the minimum difference
C17_Witness ==
  /\ Rejected
  /\ PriorBid # 0
  /\ session.amount > PriorAmount
  /\ session.error = "less than the minimum bid difference"

\* C18: placeBid fails with the not-enough error only if the free balance is
\* below the amount to lock (the amount for a first bid, the difference for a
\* raise), and a call with too little free balance is always rejected, with
\* that error unless an earlier check of the call has rejected it.
C18_NotEnoughExactly ==
  Returned /\ session.userId \in DOMAIN wallets =>
    LET need == IF PriorBid = 0 THEN session.amount
                ELSE session.amount - PriorAmount
    IN  /\ session.error = "Not enough balance" => FreeBefore < need
        /\ FreeBefore < need =>
             /\ Rejected
             /\ session.error \in GetAuctionErrors \cup
                  {"less than the current bid",
                   "less than the minimum bid difference", "Not enough balance"}

\* a raise succeeded although the free balance was below the new amount
C18_Witness ==
  /\ Succeeded
  /\ PriorBid # 0
  /\ FreeBefore < session.amount
  /\ FreeBefore >= session.amount - PriorAmount

\* the auction is ended for placeBid when the call starts
EndedBefore ==
  LET a == session.auctionId
      rounds == session.before.rounds[a]
  IN  \/ auctions[a].status # "active"
      \/ \A r \in 1 .. Len(rounds) : rounds[r].endTime < now
      \/ \A r \in 1 .. Len(rounds) : rounds[r].status # "active"

\* C19: a placeBid on an auction that is not ACTIVE, or whose rounds have all
\* passed their endTime, or whose rounds are all not ACTIVE, is rejected with
\* the auction-ended error and leaves bids, wallets and transactions as they
\* were; that includes an auction finalization has set to ENDED.
C19_EndedAuctionRejects ==
  Returned /\ EndedBefore =>
    /\ Rejected
    /\ session.error = "Auction is ended"
    /\ Committed = session.before

\* a bid on a finalized auction whose last round has not reached its endTime
\* was rejected
C19_Witness ==
  /\ Rejected
  /\ auctions[session.auctionId].status = "ended"
  /\ \E r \in Rounds(session.auctionId) :
       auctions[session.auctionId].rounds[r].endTime >= now

\* C20: no step of a placeBid call lowers the endTime of any round.
C20_EndTimeNeverDecreases ==
  [][\A a \in Auctions : \A r \in Rounds(a) :
       auctions'[a].rounds[r].endTime >= auctions[a].rounds[r].endTime]_vars

\* a successful placeBid has pushed a round's endTime forward
C20_Witness ==
  /\ Succeeded
  /\ \E r \in Rounds(session.auctionId) :
       auctions[session.auctionId].rounds[r].endTime
         > session.before.rounds[session.auctionId][r].endTime

RECURSIVE Pushes(_, _, _)
\* the number of rounds among the first i that a placeBid at time now moves:
\* round j is moved when its endTime is after now and below the threshold,
\* which is now + A after no move and A further after every move
Pushes(rounds, i, A) ==
  IF i = 0 THEN 0
  ELSE LET k == Pushes(rounds, i - 1, A)
       IN  IF rounds[i].endTime > now /\ rounds[i].endTime < now + A * (k + 1)
           THEN k + 1 ELSE k

\* the endTime of round i after a placeBid at time now
PushedEndTime(rounds, i, A) ==
  LET threshold == now + A * (Pushes(rounds, i - 1, A) + 1)
  IN  IF rounds[i].endTime > now /\ rounds[i].endTime < threshold
      THEN threshold ELSE rounds[i].endTime

\* C21: after a successful placeBid at time now on an auction with
\* antisniping A > 0, every round with endTime > now that lies below the
\* running threshold (now + A at first, A more after each moved round) has
\* endTime equal to that threshold, and every other round keeps its endTime.
C21_AntisnipingThreshold ==
  Succeeded /\ auctions[session.auctionId].settings.antisniping > 0 =>
    LET a == session.auctionId
        old == session.before.rounds[a]
    IN  auctions[a].rounds =
          [r \in 1 .. Len(old) |->
             [old[r] EXCEPT !.endTime =
                PushedEndTime(old, r, auctions[a].settings.antisniping)]]

\* a bid has moved both rounds of an auction, the second to the advanced
\* threshold
C21_Witness ==
  /\ Succeeded
  /\ Len(auctions[session.auctionId].rounds) = 2
  /\ auctions[session.auctionId].rounds[1].endTime
       = now + auctions[session.auctionId].settings.antisniping
  /\ auctions[session.auctionId].rounds[2].endTime
       = now + 2 * auctions[session.auctionId].settings.antisniping
  /\ session.before.rounds[session.auctionId][2].endTime
       < auctions[session.auctionId].rounds[2].endTime

\* the BID and INCREASE_BID transactions of auction a
BidOpsOn(a) ==
  SumOver({t \in BagToSet(transactions) :
             t.type \in {"BID", "INCREASE_BID"} /\ t.relatedEntityId = a},
          transactions)

\* the first-stage message of round r of auction a
FirstStage(a, r) == StageMsg(a, r, "determine_winners")

\* C22: the instant now = endTime counts as expired. No placeBid succeeds on
\* an auction none of whose rounds ends after now, and a trigger handled for
\* an ACTIVE auction while an ACTIVE round has endTime = now publishes
\* DETERMINE_WINNERS for that round.
C22_EndTimeIsExpired ==
  [][\A a \in Auctions :
       /\ (\A r \in Rounds(a) : auctions[a].rounds[r].endTime <= now)
            => BidOpsOn(a)' = BidOpsOn(a)
       /\ \A r \in Rounds(a) :
            /\ CopiesIn(a, jobsQ') < CopiesIn(a, jobsQ)
            /\ auctions[a].status = "active"
            /\ auctions[a].rounds[r].status = "active"
            /\ auctions[a].rounds[r].endTime = now
            => CopiesIn(FirstStage(a, r), processingQ')
                 > CopiesIn(FirstStage(a, r), processingQ)]_vars

\* the bids a step turns from ACTIVE to WON
NewlyWon == {b \in BidIds : bids[b].status = "active" /\ bids'[b].status = "won"}

C24_EarlierBidWinsTie ==
  [][\A a \in Auctions : \A r \in Rounds(a) :
       ProcessStage(FirstStage(a, r)) =>
         \A w \in NewlyWon : \A l \in BidsOf(a, "active") \ NewlyWon :
           bids[w].amount = bids[l].amount => w < l]_vars

\* the items of round r of auction a that have left the seller
SoldItems(a, r) == {i \in auctions[a].rounds[r].itemIds : items[i] # Seller}

\* round r of auction a has fewer ACTIVE bids than items
FewerBidsThanItems(a, r) ==
  /\ r \in Rounds(a)
  /\ Cardinality(BidsOf(a, "active")) < Cardinality(auctions[a].rounds[r].itemIds)

\* C25: an expired round with fewer ACTIVE bids than items (none included) is
\* still finalized (round COMPLETED and ENDED, auction ENDED after the last
\* round), and in a settled round only as many items have left the seller as
\* bids won the round: every unpaired item still has the seller as ownerId.
C25_UnsoldItemsStayWithSeller ==
  /\ [](\A a \in Auctions : \A r \in Rounds(a) :
          RoundSettled(a, r) =>
            Cardinality(SoldItems(a, r)) <= Cardinality(WinnersOf(a, r)))
  /\ \A a \in Auctions : \A r \in 1 .. 2 :
       RoundExpired(a, r) /\ FewerBidsThanItems(a, r)
         ~> /\ RoundSettled(a, r)
            /\ IsLastRound(a, r) => auctions[a].status = "ended"

(***************************************************************************)
(* TriggerSpec: the ledger with trigger messages arriving on jobs.q from   *)
(* any publisher, for any auction id (one that does not exist included),   *)
(* and with a1 possibly ENDED or CANCELLED from the start.                 *)
(***************************************************************************)
Ghost == "a0"
TriggerIds == {"a1", Ghost}

\* a JobMessage {auctionId} is published to delayed.ex / jobs
PublishTrigger(id) ==
  /\ triggers < MaxTriggers
  /\ CopiesIn(id, jobsQ) < MaxCopies
  /\ jobsQ' = jobsQ (+) SetToBag({id})
  /\ triggers' = triggers + 1
  /\ UNCHANGED <<now, wallets, bids, auctions, items, transactions,
                 processingQ, locked, credited, committed>>
  /\ UNCHANGED auxVars

TriggerInit ==
  /\ LedgerInitWith(Fixtures \cup {EndedAuction, CancelledAuction})
  /\ LockIdle
  /\ NoSession

TriggerNext ==
  \/ LivePlaceBid
  \/ Tick
  \/ \E id \in TriggerIds : PublishTrigger(id)
  \/ \E id \in TriggerIds : ProcessAuctionTrigger(id)
  \/ LiveProcessStage

TriggerSpec == TriggerInit /\ [][TriggerNext]_vars

\* the auction of a trigger is missing or not ACTIVE
NotProcessable(id) == id \notin DOMAIN auctions \/ auctions[id].status # "active"

\* C26: handling a trigger for an auction that does not exist or is not
\* ACTIVE removes the trigger from jobs.q without requeueing it, publishes no
\* stage message and changes no wallet, bid, item or auction.
C26_StrayTriggerDropped ==
  [][\A id \in TriggerIds :
       ProcessAuctionTrigger(id) /\ NotProcessable(id) =>
         /\ jobsQ' = jobsQ (-) SetToBag({id})
         /\ UNCHANGED <<processingQ, wallets, bids, items, auctions,
                        transactions>>]_vars

\* every published trigger has been handled while a1 was not ACTIVE, one of
\* them for the auction that does not exist
C26_Witness ==
  /\ auctions["a1"].status # "active"
  /\ triggers = MaxTriggers
  /\ jobsQ = EmptyBag
  /\ processingQ = EmptyBag

(***************************************************************************)
(* processAuctionSync: every stage of every expired round, one round after *)
(* the other, inside one transaction.  The stages are the functions of the *)
(* staged mode; here they are applied to a record of the documents the     *)
(* transaction sees: wallets, bid statuses, item owners, the auction.      *)
(***************************************************************************)
\* the bids of auction a that have status st in the record d
SyncBidsOf(d, a, st) == {b \in BidIds : bids[b].auctionId = a /\ d.status[b] = st}

\* _updateRoundProcessingStatus
SyncRoundStatus(d, r, status) ==
  [d EXCEPT !.auction.rounds[r].processingStatus = status]

\* _stageDetermineWinners
SyncDetermineWinners(d, a, r) ==
  {[SyncRoundStatus(d, r, "processing_winners") EXCEPT !.status =
      [b \in BidIds |->
         IF b \in SeqRange(Take(o, Cardinality(d.auction.rounds[r].itemIds)))
         THEN "won" ELSE d.status[b]]] :
     o \in SortByAmountDesc(SyncBidsOf(d, a, "active"))}

\* _getWinningEntities
SyncWinningEntities(d, a, r) ==
  {Take(o, Cardinality(d.auction.rounds[r].itemIds)) :
     o \in SortByAmountDesc(SyncBidsOf(d, a, "won"))}

\* _stageTransferItems
SyncTransferItems(d, a, r) ==
  {LET its == SortByNum(d.auction.rounds[r].itemIds)
       winningCount == Min(Len(its), Len(topBids))
   IN  [SyncRoundStatus(d, r, "processing_transfers") EXCEPT !.items =
          [i \in Items |->
             IF \E k \in 1 .. winningCount : its[k] = i
             THEN bids[topBids[CHOOSE k \in 1 .. winningCount : its[k] = i]].userId
             ELSE d.items[i]]] :
     topBids \in SyncWinningEntities(d, a, r)}

\* _stageProcessPayments
SyncProcessPayments(d, a, r) ==
  {LET winningCount == Min(Cardinality(d.auction.rounds[r].itemIds), Len(topBids))
       amountOf == [k \in 1 .. winningCount |-> bids[topBids[k]].amount]
       debit(u) == SumOver({k \in 1 .. winningCount :
                              bids[topBids[k]].userId = u}, amountOf)
       totalTransferAmount == SumOver(1 .. winningCount, amountOf)
   IN  [d EXCEPT !.wallets =
          [u \in Users |->
             [balance |-> d.wallets[u].balance - debit(u)
                          + (IF u = Seller THEN totalTransferAmount ELSE 0),
              lockedBalance |-> d.wallets[u].lockedBalance - debit(u)]]] :
     topBids \in SyncWinningEntities(d, a, r)}

\* _stageRefundLosers, called for the last round only
SyncRefundLosers(d, a, r) ==
  LET losingBids == SyncBidsOf(d, a, "active")
      amountOf == [b \in BidIds |-> bids[b].amount]
      refund(u) == SumOver({b \in losingBids : bids[b].userId = u}, amountOf)
  IN  [SyncRoundStatus(d, r, "processing_losers") EXCEPT
         !.status = [b \in BidIds |->
                       IF b \in losingBids THEN "lost" ELSE d.status[b]],
         !.wallets = [u \in Users |->
                        [d.wallets[u] EXCEPT !.lockedBalance = @ - refund(u)]]]

\* _stageFinalize
SyncFinalize(d, r) ==
  [SyncRoundStatus(d, r, "completed") EXCEPT
     !.auction.rounds[r].status = "ended",
     !.auction.status = IF r = Len(d.auction.rounds) THEN "ended" ELSE @]

\* the body of the round loop: the stages of round r in sequence
SyncRound(d, a, r) ==
  {SyncFinalize(IF r = Len(d.auction.rounds) THEN SyncRefundLosers(d3, a, r)
                                             ELSE d3, r) :
     d3 \in UNION {SyncProcessPayments(d2, a, r) :
              d2 \in UNION {SyncTransferItems(d1, a, r) :
                       d1 \in SyncDetermineWinners(d, a, r)}}}

RECURSIVE SyncRounds(_, _, _, _)
\* the round loop from index r on, at the time t read before the loop
SyncRounds(D, a, r, t) ==
  IF D = {} \/ r > Len((CHOOSE d \in D : TRUE).auction.rounds) THEN D
  ELSE SyncRounds(
         UNION {IF d.auction.rounds[r].status # "active"
                   \/ d.auction.rounds[r].endTime >= t
                THEN {d} ELSE SyncRound(d, a, r) : d \in D},
         a, r + 1, t)

\* processAuctionSync on the documents d at time t: the documents it commits
ProcessAuctionSync(d, a, t) ==
  IF d.auction.status # "active" THEN {d} ELSE SyncRounds({d}, a, 1, t)

(***************************************************************************)
(* ModeSpec: the staged mode on its own terms: bids are placed on a1, then *)
(* one sweep publishes one trigger and every message is delivered once;    *)
(* no bid is placed once the trigger is out.                               *)
(***************************************************************************)
ModePlaceBid == triggers = 0 /\ LivePlaceBid

ModeCheckEndedAuctions == triggers = 0 /\ CheckEndedAuctions

ModeNext ==
  \/ ModePlaceBid
  \/ Tick
  \/ ModeCheckEndedAuctions
  \/ LiveProcessAuctionTrigger
  \/ LiveProcessStage

ModeSpec == Init /\ [][ModeNext]_vars

\* the documents of auction a as committed now
Documents(a) ==
  [wallets |-> wallets, status |-> [b \in BidIds |-> bids[b].status],
   items |-> items, auction |-> auctions[a]]

\* the documents of auction a when its trigger was published: finalization
\* changes neither the amount nor the owner of a bid nor an endTime, so they
\* are the present ones with the work of the finalizer taken back
DocumentsBefore(a) ==
  [wallets |-> [u \in Users |->
                  [balance |-> IF u = Seller THEN 0 ELSE InitBalance,
                   lockedBalance |->
                     SumOver({b \in BidIds : bids[b].userId = u}, BidAmount)]],
   status |-> [b \in BidIds |-> "active"],
   items |-> [i \in Items |-> Seller],
   auction |-> [auctions[a] EXCEPT
                  !.status = "active",
                  !.rounds = [r \in 1 .. Len(auctions[a].rounds) |->
                                [auctions[a].rounds[r] EXCEPT
                                   !.status = "active",
                                   !.processingStatus = None]]]]

\* the single trigger of auction a and all its stage messages are handled
StagedDone(a) == triggers = 1 /\ Quiescent(a)

\* C27: when one trigger and each of its stage messages have been handled,
\* with no bid placed meanwhile, the committed bid statuses, item owners,
\* wallets, round statuses and auction status are those processAuctionSync
\* commits from the same documents (at the time the trigger was handled),
\* also when several rounds had expired.
C27_SyncEqualsStaged ==
  StagedDone("a1") =>
    \E t \in 0 .. MaxTime :
      Documents("a1") \in ProcessAuctionSync(DocumentsBefore("a1"), "a1", t)

(***************************************************************************)
(* CrashSpec: ModeSpec with a worker that can fail once per stage message  *)
(* between the commit of the stage and the acknowledgement.                *)
(***************************************************************************)
\* _executeStage commits the stage, then _publishNextStage throws or the
\* worker dies: the handler answers Nack(true) or never acknowledges, the
\* broker keeps the message for redelivery and no next stage is published.
\* A message whose stage has committed once does not fail again.
ProcessStagePublishFails(m) ==
  /\ CopiesIn(m, processingQ) > 0
  /\ m \notin committed
  /\ StageBody(m)
  /\ committed' = committed \cup {m}
  /\ UNCHANGED <<now, jobsQ, processingQ, triggers>>
  /\ UNCHANGED auxVars

CrashProcessStageFails ==
  \E m \in BagToSet(processingQ) : ProcessStagePublishFails(m)

CrashNext ==
  \/ ModePlaceBid
  \/ Tick
  \/ ModeCheckEndedAuctions
  \/ LiveProcessAuctionTrigger
  \/ LiveProcessStage
  \/ CrashProcessStageFails

CrashSpec == Init /\ [][CrashNext]_vars

\* C28: after a failure between the commit of a stage and the publication of
\* the next one, the round goes on with the stage after the committed one: no
\* stage that has already committed for a round is executed again.
C28_ResumesAfterCommittedStage ==
  [][\A a \in Auctions : \A r \in Rounds(a) : \A i \in 1 .. Len(STAGE_ORDER) :
       StageMsg(a, r, STAGE_ORDER[i]) \in committed
         => ~ProcessStage(StageMsg(a, r, STAGE_ORDER[i]))]_vars

\* C29: the delete of releaseLock removes the entry of the key only when the
\* entry present at that moment carries the caller's own token; it never
\* removes an entry that holds the token of another caller.
C29_ReleaseRemovesOwnToken ==
  [][\A c \in Callers :
       ReleaseLockDel(c) => cache[CurKey(c)] \in {c, None}]_vars

(***************************************************************************)
(* A holder that never releases (ExpirySpec): the process of a caller dies *)
(* inside fn, so the `finally` of withLock never runs. acquireLock stores  *)
(* the token with `set(lockKey, lockToken)` and the store is created       *)
(* without a ttl, so no step of the cache removes an entry by itself; the  *)
(* `ttlMs` option placeBid passes is not read by withLock.                 *)
(***************************************************************************)

\* the callers of this specification: one bid placement and one finalizer
\* handler of the same auction
ExpiryCallers == {"bid1", "fin"}

\* the process of caller c dies inside the critical section
Crash(c) ==
  /\ lpc[c].pos = "fn"
  /\ lpc' = [lpc EXCEPT ![c].pos = "crashed"]
  /\ UNCHANGED <<cache, seen>>

\* one cache operation or control step of a live caller
LockStep(c) ==
  \/ AcquireLockGet(c)
  \/ AcquireLockSet(c)
  \/ AcquireLockVerify(c)
  \/ Retry(c)
  \/ GiveUp(c)
  \/ FnReturns(c)
  \/ ReleaseLockGet(c)
  \/ ReleaseLockDel(c)

ExpiryNext ==
  /\ \E c \in ExpiryCallers :
       \/ AcquireLockGet(c)
       \/ AcquireLockSet(c)
       \/ AcquireLockVerify(c)
       \/ Retry(c)
       \/ GiveUp(c)
       \/ FnReturns(c)
       \/ Crash(c)
       \/ ReleaseLockGet(c)
       \/ ReleaseLockDel(c)
  /\ UNCHANGED ledgerVars
  /\ UNCHANGED session

\* a live caller keeps running: the event loop resumes every pending await
ExpirySpec ==
  /\ LockInit
  /\ [][ExpiryNext]_vars
  /\ \A c \in ExpiryCallers : WF_vars(LockStep(c) /\ UNCHANGED <<ledgerVars, session>>)

\* caller c died inside fn while the entry of key k carries its token
CrashedHolding(c, k) ==
  /\ lpc[c].pos = "crashed"
  /\ cache[k] = c

\* C30: every lock entry carries an expiry: when a holder acquires a key and
\* never releases it (its process dies inside the critical section), the
\* entry of the key eventually stops carrying the holder's token, so that
\* another caller can acquire the key.
C30_CrashedHolderExpires ==
  \A c \in ExpiryCallers : \A k \in Keys :
    CrashedHolding(c, k) ~> (cache[k] # c)

(***************************************************************************)
(* The wait of acquireLockWithPubSub (WaitSpec). Each caller's service     *)
(* instance has its own pubSubEnabled, fixed by the constructor, and each  *)
(* call records startTime at entry; both are kept in the caller's lpc      *)
(* record. The default maxAttempts (1000) is not reached within the        *)
(* explored time and is left out. With these two callers only the outer    *)
(* key (auction:a1) is contended, so only the outer call can wait.         *)
(***************************************************************************)

\* timeoutMs of acquireLockWithPubSub, in time units
WaitTimeout == 2

\* one finalizer handler and one bid placement of the same auction
WaitCallers == {"fin", "bid1"}

\* Date.now() - startTime
Elapsed(c) == now - lpc[c].startTime

\* where a caller continues when acquireLockWithPubSub throws: withLock does
\* not run fn; an enclosing withLock releases its key
ThrownFrom(c) ==
  IF lpc[c].depth = 1 THEN [lpc[c] EXCEPT !.pos = "thrown"]
  ELSE [lpc[c] EXCEPT !.depth = @ - 1, !.pos = "relGet", !.failed = TRUE]

\* acquireLockWithPubSub is entered: `startTime = Date.now()`; without
\* pub/sub the call is a single acquireLock
EnterAcquire(c) ==
  /\ lpc[c].pos = "idle"
  /\ lpc' = [lpc EXCEPT ![c].startTime = now,
                        ![c].pos = IF lpc[c].pubSubEnabled THEN "loop"
                                                           ELSE "start"]
  /\ UNCHANGED <<cache, seen>>

\* the top of the while loop: the timeout check before an attempt
LoopTop(c) ==
  /\ lpc[c].pos = "loop"
  /\ lpc' = [lpc EXCEPT ![c] = IF Elapsed(c) >= WaitTimeout THEN ThrownFrom(c)
                               ELSE [@ EXCEPT !.pos = "start"]]
  /\ UNCHANGED <<cache, seen>>

\* acquireLock returned null: without pub/sub the call throws at once; with
\* pub/sub it throws when no time remains and waits otherwise
AcquireFailed(c) ==
  /\ lpc[c].pos = "wait"
  /\ lpc' = [lpc EXCEPT ![c] =
       IF ~lpc[c].pubSubEnabled \/ Elapsed(c) >= WaitTimeout
       THEN ThrownFrom(c)
       ELSE [@ EXCEPT !.pos = "waiting"]]
  /\ UNCHANGED <<cache, seen>>

\* waitForLockRelease resolves, on the release event or on its timer
WaitForLockRelease(c) ==
  /\ lpc[c].pos = "waiting"
  /\ lpc' = [lpc EXCEPT ![c].pos = "loop"]
  /\ UNCHANGED <<cache, seen>>

WaitInit ==
  /\ LedgerInit
  /\ auctions["a1"].settings.antisniping = 0
  /\ cache = [k \in Keys |-> None]
  /\ \E enabled \in [WaitCallers -> BOOLEAN] :
       lpc = [c \in Callers |->
                [depth |-> 1, pos |-> "idle", failed |-> FALSE,
                 pubSubEnabled |-> IF c \in WaitCallers THEN enabled[c]
                                                        ELSE TRUE,
                 startTime |-> 0]]
  /\ seen = [c \in Callers |-> None]
  /\ NoSession

WaitNext ==
  \/ /\ \E c \in WaitCallers :
          \/ EnterAcquire(c)
          \/ LoopTop(c)
          \/ AcquireLockGet(c)
          \/ AcquireLockSet(c)
          \/ AcquireLockVerify(c)
          \/ AcquireFailed(c)
          \/ WaitForLockRelease(c)
          \/ FnReturns(c)
          \/ ReleaseLockGet(c)
          \/ ReleaseLockDel(c)
     /\ UNCHANGED ledgerVars
     /\ UNCHANGED session
  \/ Tick

WaitSpec == WaitInit /\ [][WaitNext]_vars

\* this step makes the acquireLockWithPubSub call of caller c throw
AcquireThrows(c) ==
  /\ lpc[c].pos \in {"loop", "wait"}
  /\ lpc'[c].pos = "thrown" \/ (lpc'[c].failed /\ ~lpc[c].failed)

\* C31: a withLock call that finds the key held keeps waiting and retrying,
\* with or without the pub/sub channel: its acquisition fails only when the
\* caller's maximum wait has been reached.
C31_WaitsUntilMaximumWait ==
  [][\A c \in WaitCallers : AcquireThrows(c) => Elapsed(c) >= WaitTimeout]_vars

\* the bids whose charge count this step increases
NewlyCharged == {b \in BidIds : bids'[b].charged > bids[b].charged}

\* C32: the bids TRANSFER_ITEMS of round r pairs with the items of the round
\* and the bids PROCESS_PAYMENTS of round r charges are exactly the bids
\* DETERMINE_WINNERS marked WON for round r (by descending amount, as many as
\* the round has items); a bid that WON another round is not among them.
C32_RoundWinnersOnly ==
  [][\A a \in Auctions : \A r \in Rounds(a) :
       /\ ProcessStage(StageMsg(a, r, "process_payments"))
            => NewlyCharged = WinnersOf(a, r)
       /\ ProcessStage(StageMsg(a, r, "transfer_items"))
            => \E order \in SortByAmountDesc(WinnersOf(a, r)) :
                 LET its == SortByNum(auctions[a].rounds[r].itemIds)
                 IN  \A i \in 1 .. Len(its) :
                       items'[its[i]] = IF i <= Len(order)
                                        THEN bids[order[i]].userId
                                        ELSE items[its[i]]]_vars

(***************************************************************************)
(* One stage handler step by step (AbortSpec): the delivery of a stage     *)
(* message, withLock on the auction key, the transaction of _executeStage  *)
(* (the session) and its commit, its abort or the death of the process.    *)
(* The sweep runs once, so every stage message is published once. Bids,    *)
(* the sweep and the trigger handler run between two deliveries.           *)
(***************************************************************************)

\* the handler of processStage
Handler == "fin"

\* a token stored by a process that no longer exists
DeadToken == "dead"

\* the stage messages of auction a1
StageMsgs ==
  {StageMsg("a1", r, STAGE_ORDER[i]) : r \in 1 .. 2, i \in 1 .. Len(STAGE_ORDER)}

IdleHandler == [depth |-> 1, pos |-> "idle", failed |-> FALSE]

\* the broker delivers a pending stage message: processStage starts withLock
Deliver(m) ==
  /\ session.pos = "idle"
  /\ lpc[Handler].pos = "idle"
  /\ CopiesIn(m, processingQ) > 0
  /\ session' = [session EXCEPT !.pos = "delivered", !.msg = m]
  /\ lpc' = [lpc EXCEPT ![Handler].pos = "start"]
  /\ UNCHANGED <<cache, seen>>
  /\ UNCHANGED ledgerVars

\* the transaction of _executeStage is open: fn runs under the lock
InTransaction == session.pos = "delivered" /\ lpc[Handler].pos = "fn"

\* commitTransaction, the publication of the next stage, `return null`
StageCommits ==
  /\ InTransaction
  /\ ExecuteStage(session.msg)
  /\ session' = [session EXCEPT !.pos = "returned"]
  /\ UNCHANGED lockVars

\* session.abortTransaction() in the catch block: the writes of the stage
\* are discarded; Nack(true) leaves the message in the queue
AbortStage == UNCHANGED ledgerVars

\* how many transactions of a run end without a commit
MaxAborts == 1

\* a stage body throws before the commit
StageAborts ==
  /\ InTransaction
  /\ Cardinality(session.aborted) < MaxAborts
  /\ AbortStage
  /\ session' = [session EXCEPT !.pos = "returned",
                                !.aborted = @ \cup {session.msg}]
  /\ UNCHANGED lockVars

\* the process is killed before the commit: the open transaction is rolled
\* back by the database, the unacknowledged message stays in the queue, the
\* `finally` of withLock never runs. The handler of the next delivery is
\* another process, whose tokens differ from those of the dead one.
StageKilled ==
  /\ InTransaction
  /\ Cardinality(session.aborted) < MaxAborts
  /\ session' = [session EXCEPT !.pos = "idle", !.msg = None,
                                !.aborted = @ \cup {session.msg}]
  /\ lpc' = [lpc EXCEPT ![Handler] = IdleHandler]
  /\ cache' = [k \in Keys |-> IF cache[k] = Handler THEN DeadToken
                              ELSE cache[k]]
  /\ UNCHANGED seen
  /\ UNCHANGED ledgerVars

\* one cache operation or control step of withLock in the handler
HandlerLockStep ==
  /\ \/ AcquireLockGet(Handler)
     \/ AcquireLockSet(Handler)
     \/ AcquireLockVerify(Handler)
     \/ Retry(Handler)
     \/ GiveUp(Handler)
     \/ session.pos = "returned" /\ FnReturns(Handler)
     \/ ReleaseLockGet(Handler)
     \/ ReleaseLockDel(Handler)
  /\ UNCHANGED ledgerVars
  /\ UNCHANGED session

\* processStage returns: the result of _executeStage, or Nack(true) from its
\* catch block when withLock threw
HandlerReturns ==
  /\ lpc[Handler].pos \in {"done", "thrown"}
  /\ session' = [session EXCEPT !.pos = "idle", !.msg = None]
  /\ lpc' = [lpc EXCEPT ![Handler] = IdleHandler]
  /\ UNCHANGED <<cache, seen>>
  /\ UNCHANGED ledgerVars

\* the rest of the system runs between two deliveries: the lock of the
\* auction serializes bids and the trigger handler with the stage handler
BetweenDeliveries == session.pos = "idle"

AbortInit ==
  /\ LedgerInit
  /\ cache = [k \in Keys |-> None]
  /\ lpc = [c \in Callers |-> IdleHandler]
  /\ seen = [c \in Callers |-> None]
  /\ session = [pos |-> "idle", msg |-> None, aborted |-> {}]

AbortNext ==
  \/ BetweenDeliveries /\ ModePlaceBid
  \/ BetweenDeliveries /\ Tick
  \/ BetweenDeliveries /\ ModeCheckEndedAuctions
  \/ BetweenDeliveries /\ \E a \in Auctions : ProcessAuctionTrigger(a)
  \/ \E m \in StageMsgs : Deliver(m)
  \/ HandlerLockStep
  \/ StageCommits
  \/ StageAborts
  \/ StageKilled
  \/ HandlerReturns

\* the handler keeps running: a pending message is delivered and every
\* pending await of the handler resumes
HandlerStep ==
  \/ \E m \in StageMsgs : Deliver(m)
  \/ HandlerLockStep
  \/ StageCommits
  \/ HandlerReturns

AbortSpec ==
  /\ AbortInit
  /\ [][AbortNext]_vars
  /\ WF_vars(HandlerStep)
  /\ WF_vars(BetweenDeliveries /\ \E a \in Auctions : ProcessAuctionTrigger(a))

\* this step ends the transaction of a stage without a commit
AbortsBeforeCommit == session'.aborted # session.aborted

\* C33: when the transaction of a stage ends before committing (the stage
\* throws, or the process is killed), no wallet, bid, item or round field
\* has changed and the message is still queued; the stage commits only for
\* a message that has not committed before, and every message whose
\* transaction ended that way is eventually committed by a redelivery.
C33_AbortedStageAppliesOnce ==
  /\ [][AbortsBeforeCommit
          => /\ UNCHANGED <<wallets, bids, items, auctions>>
             /\ CopiesIn(session.msg, processingQ') > 0]_vars
  /\ [][StageCommits => session.msg \notin committed]_vars
  /\ \A m \in StageMsgs : (m \in session.aborted) ~> (m \in committed)

\* the stage messages a committed stage is expected to publish
Successors(m) ==
  LET last == m.roundIndex = Len(auctions[m.auctionId].rounds)
      next ==
        CASE m.stage = "determine_winners" -> {"transfer_items"}
          [] m.stage = "transfer_items" -> {"process_payments"}
          [] m.stage = "process_payments" ->
               IF last THEN {"refund_losers"} ELSE {"finalize"}
          [] m.stage = "refund_losers" -> {"finalize"}
          [] m.stage = "finalize" -> {}
  IN  SetToBag({StageMsg(m.auctionId, m.roundIndex, st) : st \in next})

\* C34: a step of the stage handler (the only step that changes the stage
\* queue and leaves the trigger queue alone) commits a stage, consumes its
\* message and publishes exactly its
\* successor for the same round: DETERMINE_WINNERS -> TRANSFER_ITEMS ->
\* PROCESS_PAYMENTS -> REFUND_LOSERS (last round only) -> FINALIZE; FINALIZE
\* publishes nothing.
C34_StagesChainInOrder ==
  [][processingQ' # processingQ /\ jobsQ' = jobsQ
       => \E m \in BagToSet(processingQ) :
            /\ m \in committed'
            /\ processingQ' =
                 (processingQ (-) SetToBag({m})) (+) Successors(m)]_vars

\* both rounds of a1 went through their chains: the first round was
\* finalized without a REFUND_LOSERS stage, the last round with one
C34_Witness ==
  /\ StageMsg("a1", 1, "finalize") \in committed
  /\ StageMsg("a1", 1, "refund_losers") \notin committed
  /\ StageMsg("a1", 2, "refund_losers") \in committed
  /\ StageMsg("a1", 2, "finalize") \in committed
  /\ Quiescent("a1")

\* the end time of round <<a, r>> has not passed
NotYetEnded(a, r) == auctions[a].rounds[r].endTime >= now

\* C35: handling a trigger publishes DETERMINE_WINNERS only, and only for
\* rounds of the auction with status ACTIVE and endTime < now; a round whose
\* end time has not passed has status ACTIVE, its items are still owned by
\* the seller, and its auction is ACTIVE.
C35_OnlyEndedRoundsStart ==
  /\ [][\A a \in Auctions :
          ProcessAuctionTrigger(a)
            => \A m \in BagToSet(processingQ') :
                 CopiesIn(m, processingQ') > CopiesIn(m, processingQ)
                   => /\ m.auctionId = a
                      /\ m.stage = "determine_winners"
                      /\ auctions[a].rounds[m.roundIndex].status = "active"
                      /\ auctions[a].rounds[m.roundIndex].endTime < now]_vars
  /\ [](\A a \in Auctions : \A r \in Rounds(a) :
          NotYetEnded(a, r)
            => /\ auctions[a].rounds[r].status = "active"
               /\ auctions[a].rounds[r].processingStatus = None
               /\ \A i \in auctions[a].rounds[r].itemIds : items[i] = Seller
               /\ auctions[a].status = "active")

\* the first round of a1 was finalized, with a winner who received its item,
\* while the end time of the second round has not passed
C35_Witness ==
  /\ Len(auctions["a1"].rounds) = 2
  /\ auctions["a1"].rounds[1].status = "ended"
  /\ \E i \in auctions["a1"].rounds[1].itemIds : items[i] # Seller
  /\ NotYetEnded("a1", 2)
  /\ Quiescent("a1")

\* C36: whenever an auction is ENDED, every one of its rounds has status
\* ENDED or CANCELLED and has left the stage pipeline (its processingStatus
\* is COMPLETED): the auction is not ENDED while an earlier expired round is
\* still being processed.
C36_EndedAuctionHasEndedRounds ==
  \A a \in Auctions :
    auctions[a].status = "ended"
    => \A r \in Rounds(a) :
         /\ auctions[a].rounds[r].status \in {"ended", "cancelled"}
         /\ auctions[a].rounds[r].processingStatus = "completed"

(***************************************************************************)
(* placeBid step by step on an auction document with a cancelled round     *)
(* (MixedSpec). No code of the repository creates auctions; the schema     *)
(* gives every round a status of its own.                                  *)
(***************************************************************************)
MixedInit ==
  /\ LedgerInitWith({MixedAuction})
  /\ LockIdle
  /\ session = IdleSession

MixedSpec == MixedInit /\ [][TxNext]_vars

\* the rounds of the auction of the call, as the call read them
RoundsBefore == session.before.rounds[session.auctionId]

\* C37: a placeBid that succeeds found, when it executed, a round of the
\* auction that was both ACTIVE and had endTime > now; it does not succeed
\* when every unexpired round is non-ACTIVE and every ACTIVE round expired.
C37_BidNeedsOpenRound ==
  Succeeded
  => \E r \in 1 .. Len(RoundsBefore) :
       /\ RoundsBefore[r].status = "active"
       /\ RoundsBefore[r].endTime > now

\* the rounds of auction a whose DETERMINE_WINNERS has committed, and the
\* number of items offered in them
DeterminedRounds(a) == {r \in Rounds(a) : FirstStage(a, r) \in committed}
ItemsOffered(a) ==
  SumOver(DeterminedRounds(a),
          [r \in Rounds(a) |-> Cardinality(auctions[a].rounds[r].itemIds)])

\* C38: in every committed state the number of WON bids of an auction is at
\* most the number of items of the rounds of the auction for which
\* DETERMINE_WINNERS has committed, however often trigger and stage messages
\* are duplicated or redelivered.
C38_WonBidsWithinItems ==
  \A a \in Auctions : Cardinality(BidsOf(a, "won")) <= ItemsOffered(a)

\* the balances of the wallets, their sum, and the number of TRANSFER entries
Balances == [u \in Users |-> wallets[u].balance]
TotalBalance == SumOver(Users, Balances)
NumTransfers == BagCardinality(transactions) - NumBidOps

\* C39: every committed transaction leaves the sum of the balances of all
\* wallets unchanged: a step that appends no TRANSFER entry (placeBid,
\* REFUND_LOSERS and every other stage) changes no balance, and a
\* PROCESS_PAYMENTS commit only lowers the balances of bidders and credits
\* the seller by exactly the total it debits.
C39_BalanceConserved ==
  [][/\ TotalBalance' = TotalBalance
     /\ NumTransfers' = NumTransfers => Balances' = Balances
     /\ \A u \in Bidders : wallets'[u].balance <= wallets[u].balance
     /\ wallets'[Seller].balance - wallets[Seller].balance =
          SumOver(Bidders, [u \in Bidders |->
                              wallets[u].balance - wallets'[u].balance])]_vars

\* bids were placed, a winner has paid the seller and a losing bid was
\* released by REFUND_LOSERS
C39_Witness ==
  /\ wallets[Seller].balance > 0
  /\ BidsOf("a1", "lost") # {}
  /\ \E u \in Bidders : wallets[u].balance < InitBalance

\* the BID and INCREASE_BID entries of bidder u for auction a, and the sum of
\* their amounts
BidEntries(u, a) ==
  {t \in BagToSet(transactions) :
     /\ t.type \in {"BID", "INCREASE_BID"}
     /\ t.fromWalletId = WalletId(u)
     /\ t.relatedEntityId = a}
BidEntriesTotal(u, a) ==
  SumOver(BidEntries(u, a),
          [t \in BidEntries(u, a) |-> t.amount * transactions[t]])

\* the entry a placeBid of bidder u on auction a appends
BidEntry(u, a, type, amount) ==
  [fromWalletId |-> WalletId(u), toWalletId |-> None, amount |-> amount,
   type |-> type, relatedEntityId |-> a]

\* one TRANSFER entry for each bid of the set W, as a bag
TransferEntry(b) ==
  [fromWalletId |-> bids[b].userId, toWalletId |-> WalletId(Seller),
   amount |-> bids[b].amount, type |-> "TRANSFER",
   relatedEntityId |-> bids[b].auctionId]
TransferEntries(W) ==
  [t \in {TransferEntry(b) : b \in W} |->
     Cardinality({b \in W : TransferEntry(b) = t})]

\* C40: the transaction log follows the state: a step that inserts a bid
\* appends exactly one BID entry of its amount, a step that raises a bid
\* appends exactly one INCREASE_BID entry of the difference, a step that
\* neither inserts nor raises a bid nor commits PROCESS_PAYMENTS (a rejected
\* placeBid among them) appends nothing, and a PROCESS_PAYMENTS commit of a
\* round appends exactly one TRANSFER entry for each bid that won the round,
\* their amounts adding up to the credit of the seller; so the ACTIVE bid of
\* a bidder whose bids on the auction were never settled has as amount the
\* sum of the bidder's BID and INCREASE_BID entries for the auction.
C40_LogMatchesState ==
  /\ [][/\ Len(bids') = Len(bids) + 1
          => LET b == Len(bids') IN
               transactions' = transactions (+)
                 SetToBag({BidEntry(bids'[b].userId, bids'[b].auctionId,
                                    "BID", bids'[b].amount)})
        /\ \A b \in BidIds :
             bids'[b].amount # bids[b].amount
             => transactions' = transactions (+)
                  SetToBag({BidEntry(bids[b].userId, bids[b].auctionId,
                                     "INCREASE_BID",
                                     bids'[b].amount - bids[b].amount)})
        /\ ( /\ Len(bids') = Len(bids)
             /\ \A b \in BidIds : bids'[b].amount = bids[b].amount
             /\ wallets'[Seller] = wallets[Seller] )
           => transactions' = transactions
        /\ \A a \in Auctions : \A r \in Rounds(a) :
             ProcessStage(StageMsg(a, r, "process_payments"))
             => /\ transactions' =
                     transactions (+) TransferEntries(WinnersOf(a, r))
                /\ wallets'[Seller].balance - wallets[Seller].balance =
                     SumOver(WinnersOf(a, r),
                             [b \in BidIds |-> bids[b].amount])]_vars
  /\ [](\A u \in Bidders : \A a \in Auctions : \A b \in BidsOf(a, "active") :
          /\ bids[b].userId = u
          /\ \A c \in BidIds :
               bids[c].userId = u /\ bids[c].auctionId = a
               => bids[c].status = "active"
          => bids[b].amount = BidEntriesTotal(u, a))

====
